---- MODULE Spec2Model ----
(***************************************************************************)
(* Sales analytics system: the Line Reader (read_sales_data), the          *)
(* Transaction Parser (parse_transactions), the Filter Engine              *)
(* (validate_and_filter) of utils/file_handler.py, the Aggregators of      *)
(* utils/data_processor.py, and the pipeline run of main.py.               *)
(*                                                                         *)
(* Text is a sequence of one-character strings, so that strip, split,      *)
(* replace, startswith, int(), float() and strptime() are computed on the  *)
(* characters as Python computes them.  A Python float held in a record is *)
(* the integer number of 1/Scale units it stands for (Scale = 10^5): the   *)
(* inputs below carry at most five fractional digits, so the comparisons   *)
(* of the Parser and of the Filter Engine are exact.  The Aggregators add, *)
(* divide and round floats, and there the float is a binary64 number with  *)
(* the rounding of IEEE 754.                                               *)
(***************************************************************************)
EXTENDS Integers, Sequences, FiniteSets, TLC

VARIABLES
    pc,                           \* position of the run being modelled
    file,                         \* the input file handed to read_sales_data
    sales_data_without_header,    \* read_sales_data: the lines it returns
    encoding_used,                \* read_sales_data: the encoding it returns
    raw_lines,                    \* parse_transactions: its argument
    idx,                          \* parse_transactions: lines consumed so far
    parsed_transactions,          \* parse_transactions: the list it builds
    total_records_parsed,         \* parse_transactions: counter
    invalid_records_removed,      \* parse_transactions: counter
    valid_records_after_cleaning, \* parse_transactions: counter
    dates_list,                   \* parse_transactions: dates parsed so far
    date_range,                   \* parse_transactions: the range it reports
    transactions,                 \* validate_and_filter: its argument
    region,                       \* validate_and_filter: argument
    min_amount,                   \* validate_and_filter: argument
    max_amount,                   \* validate_and_filter: argument
    filter_result,                \* validate_and_filter: the tuple it returns
    sales_data,                   \* the list main hands to the Aggregators
    analysis,                     \* what the Aggregators return
    max_retries,                  \* fetch_all_products: argument
    attempt,                      \* fetch_all_products: retries made so far
    requests,                     \* fetch_all_products: calls of requests.get so far
    response,                     \* fetch_all_products: what the last request met
    all_products,                 \* fetch_all_products: the list it returns
    product_mapping,              \* create_product_mapping: the dict it returns
    enriched_data,                \* enrich_sales_data: list it returns
    non_enriched_data,            \* enrich_sales_data: list it returns
    total_enriched,               \* enrich_sales_data: count it returns
    total_non_enriched            \* enrich_sales_data: count it returns

apiVars == <<max_retries, attempt, requests, response, all_products,
             product_mapping, enriched_data, non_enriched_data, total_enriched,
             total_non_enriched>>

vars == <<pc, file, sales_data_without_header, encoding_used, raw_lines, idx,
          parsed_transactions, total_records_parsed, invalid_records_removed,
          valid_records_after_cleaning, dates_list, date_range, transactions,
          region, min_amount, max_amount, filter_result, sales_data, analysis,
          apiVars>>

readerVars == <<file, sales_data_without_header, encoding_used>>
parserVars == <<raw_lines, idx, parsed_transactions, total_records_parsed,
                invalid_records_removed, valid_records_after_cleaning, dates_list,
                date_range>>
filterVars == <<transactions, region, min_amount, max_amount, filter_result>>

-----------------------------------------------------------------------------
(* Bounds of the model *)

\* longest list of lines handed to parse_transactions
MaxLines == 2

\* longest list of transactions handed to validate_and_filter
MaxTxns == 3

\* most chunks the input file is decoded in
MaxChunks == 2

\* most lines of the pipeline's input file that differ from the standard line
MaxVaried == 2

\* longest list of records handed to the Aggregators
MaxSales == 3

\* products in a response of the API
MaxProducts == 2

\* records handed to enrich_sales_data
MaxRecords == 2

-----------------------------------------------------------------------------
(* Python values: every value is a record with the same three fields, so   *)
(* that values of different Python types can be compared.                  *)

NoneV == [t |-> "none", s |-> <<>>, n |-> 0]

StrV(str) == [t |-> "str", s |-> str, n |-> 0]

IntV(i) == [t |-> "int", s |-> <<>>, n |-> i]

FloatV(u) == [t |-> "float", s |-> <<>>, n |-> u]

-----------------------------------------------------------------------------
(* str methods *)

IsSpace(c) == c \in {" ", "\t", "\n", "\r"}

IsDigit(c) == c \in {"0", "1", "2", "3", "4", "5", "6", "7", "8", "9"}

DigitVal(c) ==
    CASE c = "0" -> 0 [] c = "1" -> 1 [] c = "2" -> 2 [] c = "3" -> 3
      [] c = "4" -> 4 [] c = "5" -> 5 [] c = "6" -> 6 [] c = "7" -> 7
      [] c = "8" -> 8 [] c = "9" -> 9

\* the character of a decimal digit
Digits10(n) ==
    CASE n = 0 -> "0" [] n = 1 -> "1" [] n = 2 -> "2" [] n = 3 -> "3"
      [] n = 4 -> "4" [] n = 5 -> "5" [] n = 6 -> "6" [] n = 7 -> "7"
      [] n = 8 -> "8" [] n = 9 -> "9"

RECURSIVE LStrip(_)
LStrip(str) ==
    IF str # <<>> /\ IsSpace(Head(str)) THEN LStrip(Tail(str)) ELSE str

RECURSIVE RStrip(_)
RStrip(str) ==
    IF str # <<>> /\ IsSpace(str[Len(str)])
    THEN RStrip(SubSeq(str, 1, Len(str) - 1))
    ELSE str

\* str.strip()
Strip(str) == RStrip(LStrip(str))

\* str.split(sep) for a one-character separator
RECURSIVE SplitFrom(_, _, _)
SplitFrom(str, sep, cur) ==
    IF str = <<>> THEN <<cur>>
    ELSE IF Head(str) = sep
         THEN <<cur>> \o SplitFrom(Tail(str), sep, <<>>)
         ELSE SplitFrom(Tail(str), sep, Append(cur, Head(str)))

Split(str, sep) == SplitFrom(str, sep, <<>>)

\* str.replace(old, new) for a one-character old; new is a string
RECURSIVE ReplaceChar(_, _, _)
ReplaceChar(str, old, new) ==
    IF str = <<>> THEN <<>>
    ELSE (IF Head(str) = old THEN new ELSE <<Head(str)>>)
         \o ReplaceChar(Tail(str), old, new)

\* '  ' in str
HasDoubleSpace(str) ==
    \E i \in 1..(Len(str) - 1) : str[i] = " " /\ str[i + 1] = " "

\* str.replace('  ', ' '): one left-to-right pass over non-overlapping pairs
RECURSIVE ReplaceDoubleSpace(_)
ReplaceDoubleSpace(str) ==
    IF Len(str) < 2 THEN str
    ELSE IF str[1] = " " /\ str[2] = " "
         THEN <<" ">> \o ReplaceDoubleSpace(SubSeq(str, 3, Len(str)))
         ELSE <<str[1]>> \o ReplaceDoubleSpace(Tail(str))

\* while '  ' in product_name: product_name = product_name.replace('  ', ' ')
RECURSIVE CollapseSpaces(_)
CollapseSpaces(str) ==
    IF HasDoubleSpace(str) THEN CollapseSpaces(ReplaceDoubleSpace(str)) ELSE str

\* str.startswith(prefix)
StartsWith(str, prefix) ==
    Len(str) >= Len(prefix) /\ SubSeq(str, 1, Len(prefix)) = prefix

\* str.lower() on the letters the inputs use
UpperLetters ==
    <<"A", "B", "C", "D", "E", "F", "G", "H", "I", "J", "K", "L", "M",
      "N", "O", "P", "Q", "R", "S", "T", "U", "V", "W", "X", "Y", "Z">>

LowerLetters ==
    <<"a", "b", "c", "d", "e", "f", "g", "h", "i", "j", "k", "l", "m",
      "n", "o", "p", "q", "r", "s", "t", "u", "v", "w", "x", "y", "z">>

LowerChar(c) ==
    IF \E i \in 1..26 : UpperLetters[i] = c
    THEN LowerLetters[CHOOSE i \in 1..26 : UpperLetters[i] = c]
    ELSE c

Lower(str) == [i \in 1..Len(str) |-> LowerChar(str[i])]

RECURSIVE Pow10(_)
Pow10(k) == IF k = 0 THEN 1 ELSE 10 * Pow10(k - 1)

\* the value of a string of decimal digits
RECURSIVE DigitsVal(_)
DigitsVal(str) ==
    IF str = <<>> THEN 0
    ELSE 10 * DigitsVal(SubSeq(str, 1, Len(str) - 1)) + DigitVal(str[Len(str)])

AllDigits(str) == \A i \in 1..Len(str) : IsDigit(str[i])

\* one group of digits of a numeric literal: digits, single underscores inside
DigitGroup(str) ==
    /\ str # <<>>
    /\ IsDigit(str[1])
    /\ IsDigit(str[Len(str)])
    /\ \A i \in 1..Len(str) : IsDigit(str[i]) \/ str[i] = "_"
    /\ \A i \in 1..(Len(str) - 1) : ~(str[i] = "_" /\ str[i + 1] = "_")

GroupDigits(str) == ReplaceChar(str, "_", <<>>)

HasSign(str) == str # <<>> /\ Head(str) \in {"+", "-"}

Unsigned(str) == IF HasSign(str) THEN Tail(str) ELSE str

SignOf(str) == IF str # <<>> /\ Head(str) = "-" THEN -1 ELSE 1

-----------------------------------------------------------------------------
(* int(), float(), str() of a number *)

\* int(str): ok is FALSE where Python raises ValueError
ParseInt(str) ==
    LET s == Strip(str)
        b == Unsigned(s)
    IN  IF DigitGroup(b)
        THEN [ok |-> TRUE, n |-> SignOf(s) * DigitsVal(GroupDigits(b))]
        ELSE [ok |-> FALSE, n |-> 0]

\* units per 1.0 of a float value
Scale == Pow10(5)

\* the float literals that stand for no finite number
NonFiniteLiterals ==
    { <<"i", "n", "f">>, <<"n", "a", "n">>,
      <<"i", "n", "f", "i", "n", "i", "t", "y">> }

\* mantissa digits [. digits], at least one digit group
MantissaOK(m) ==
    LET parts == Split(m, ".")
    IN  \/ Len(parts) = 1 /\ DigitGroup(parts[1])
        \/ /\ Len(parts) = 2
           /\ parts[1] = <<>> \/ DigitGroup(parts[1])
           /\ parts[2] = <<>> \/ DigitGroup(parts[2])
           /\ parts[1] # <<>> \/ parts[2] # <<>>

\* the mantissa times 10^e, in units of 1/Scale
MantissaUnits(m, e) ==
    LET parts == Split(m, ".")
        ip == GroupDigits(parts[1])
        fp == IF Len(parts) = 2 THEN GroupDigits(parts[2]) ELSE <<>>
        digits == DigitsVal(ip \o fp)
        shift == 5 - Len(fp) + e
    IN  IF shift >= 0 THEN digits * Pow10(shift) ELSE digits \div Pow10(-shift)

\* float(str): ok is FALSE where Python raises ValueError; fin is FALSE for
\* inf and nan; u is the value in units of 1/Scale
ParseFloat(str) ==
    LET s == Lower(Strip(str))
        b == Unsigned(s)
        me == Split(b, "e")
        ex == IF Len(me) = 2 THEN me[2] ELSE <<"0">>
    IN  IF b \in NonFiniteLiterals
        THEN [ok |-> TRUE, fin |-> FALSE, u |-> SignOf(s)]
        ELSE IF /\ Len(me) \in {1, 2}
                /\ MantissaOK(me[1])
                /\ DigitGroup(Unsigned(ex))
             THEN [ok |-> TRUE, fin |-> TRUE,
                   u |-> SignOf(s) * MantissaUnits(me[1],
                             SignOf(ex) * DigitsVal(GroupDigits(Unsigned(ex))))]
             ELSE [ok |-> FALSE, fin |-> FALSE, u |-> 0]

\* str(quantity).isdigit(): the decimal digits of an int, '-' for a negative
IntStrIsDigit(n) == n >= 0

\* str(price).replace('.', '', 1).isdigit(): repr of a float is digits and
\* one point exactly when it is finite, not negative and, unless 0.0, at
\* least 0.0001 (below that, and from 1e16 on, repr is in e-notation)
FloatStrIsDigit(f) ==
    /\ f.fin
    /\ f.u >= 0
    /\ f.u = 0 \/ f.u >= Scale \div 10000

-----------------------------------------------------------------------------
(* datetime.strptime(str, '%Y-%m-%d').date() and date.strftime('%Y-%m-%d') *)

IsLeap(y) == (y % 4 = 0 /\ y % 100 # 0) \/ y % 400 = 0

DaysInMonth(y, m) ==
    IF m = 2 THEN (IF IsLeap(y) THEN 29 ELSE 28)
    ELSE IF m \in {4, 6, 9, 11} THEN 30 ELSE 31

\* %Y: four digits
YearField(str) == Len(str) = 4 /\ AllDigits(str)

\* %m: 1[0-2] | 0[1-9] | [1-9]
MonthField(str) ==
    Len(str) \in {1, 2} /\ AllDigits(str) /\ DigitsVal(str) \in 1..12

\* %d: 3[01] | [12]\d | 0[1-9] | [1-9] | ' '[1-9]
DayField(str) ==
    \/ Len(str) \in {1, 2} /\ AllDigits(str) /\ DigitsVal(str) \in 1..31
    \/ Len(str) = 2 /\ str[1] = " " /\ IsDigit(str[2]) /\ str[2] # "0"

\* strptime: ok is FALSE where it raises ValueError (no match, unconverted
\* data, year 0, day out of range for month)
ParseDate(str) ==
    LET parts == Split(str, "-")
    IN  IF /\ Len(parts) = 3
           /\ YearField(parts[1])
           /\ MonthField(parts[2])
           /\ DayField(parts[3])
        THEN LET y == DigitsVal(parts[1])
                 m == DigitsVal(parts[2])
                 d == DigitsVal(LStrip(parts[3]))
             IN  IF y >= 1 /\ d <= DaysInMonth(y, m)
                 THEN [ok |-> TRUE, y |-> y, m |-> m, d |-> d]
                 ELSE [ok |-> FALSE, y |-> 0, m |-> 0, d |-> 0]
        ELSE [ok |-> FALSE, y |-> 0, m |-> 0, d |-> 0]

\* the decimal digits of a natural number
RECURSIVE IntToStr(_)
IntToStr(n) ==
    IF n < 10 THEN <<Digits10(n)>> ELSE Append(IntToStr(n \div 10), Digits10(n % 10))

\* %m and %d of strftime: two digits
Pad2(n) == IF n < 10 THEN <<"0">> \o IntToStr(n) ELSE IntToStr(n)

\* strftime('%Y-%m-%d'); the C library renders %Y without padding
FormatDate(dt) == IntToStr(dt.y) \o <<"-">> \o Pad2(dt.m) \o <<"-">> \o Pad2(dt.d)

\* min(dates_list) / max(dates_list) order dates by (year, month, day)
DateOrd(dt) == (dt.y * 12 + (dt.m - 1)) * 31 + (dt.d - 1)

-----------------------------------------------------------------------------
(* Python float arithmetic: IEEE 754 binary64, round to nearest, ties to   *)
(* even.  A float is [m, e] and stands for m * 2^e; m is a natural number  *)
(* of exactly Precision bits, held as its digits in base Base, least       *)
(* significant first (0.0 is the empty m).  Every number the Aggregators   *)
(* meet in the model is non-negative and finite.                           *)

RECURSIVE Pow2(_)
Pow2(k) == IF k = 0 THEN 1 ELSE 2 * Pow2(k - 1)

RECURSIVE BitLength(_)
BitLength(n) == IF n = 0 THEN 0 ELSE 1 + BitLength(n \div 2)

\* binary64: 64 bits less the sign and the 11 exponent bits, and the implicit
\* leading bit of the significand
Precision == 64 - 1 - 11 + 1

Base == Pow2(14)

LimbBits == BitLength(Base) - 1

RECURSIVE BigTrim(_)
BigTrim(x) ==
    IF x # <<>> /\ x[Len(x)] = 0 THEN BigTrim(SubSeq(x, 1, Len(x) - 1)) ELSE x

RECURSIVE BigOfInt(_)
BigOfInt(n) == IF n = 0 THEN <<>> ELSE <<n % Base>> \o BigOfInt(n \div Base)

RECURSIVE BigToInt(_)
BigToInt(x) == IF x = <<>> THEN 0 ELSE Head(x) + Base * BigToInt(Tail(x))

Limb(x, i) == IF i <= Len(x) THEN x[i] ELSE 0

RECURSIVE BigAddFrom(_, _, _, _)
BigAddFrom(x, y, i, carry) ==
    IF i > Len(x) /\ i > Len(y) THEN (IF carry = 0 THEN <<>> ELSE <<carry>>)
    ELSE LET t == Limb(x, i) + Limb(y, i) + carry IN
         <<t % Base>> \o BigAddFrom(x, y, i + 1, t \div Base)

BigAdd(x, y) == BigAddFrom(x, y, 1, 0)

\* x - y for x >= y
RECURSIVE BigSubFrom(_, _, _, _)
BigSubFrom(x, y, i, borrow) ==
    IF i > Len(x) THEN <<>>
    ELSE LET t == x[i] - Limb(y, i) - borrow IN
         <<IF t < 0 THEN t + Base ELSE t>>
         \o BigSubFrom(x, y, i + 1, IF t < 0 THEN 1 ELSE 0)

BigSub(x, y) == BigTrim(BigSubFrom(x, y, 1, 0))

\* -1, 0 or 1 as x is below, equal to or above y
RECURSIVE BigCmpFrom(_, _, _)
BigCmpFrom(x, y, i) ==
    IF i = 0 THEN 0
    ELSE IF x[i] < y[i] THEN -1
    ELSE IF x[i] > y[i] THEN 1
    ELSE BigCmpFrom(x, y, i - 1)

BigCmp(x, y) ==
    IF Len(x) < Len(y) THEN -1
    ELSE IF Len(x) > Len(y) THEN 1
    ELSE BigCmpFrom(x, y, Len(x))

\* x * q for a small q
RECURSIVE BigMulFrom(_, _, _, _)
BigMulFrom(x, q, i, carry) ==
    IF i > Len(x) THEN BigOfInt(carry)
    ELSE LET t == x[i] * q + carry IN
         <<t % Base>> \o BigMulFrom(x, q, i + 1, t \div Base)

BigMulSmall(x, q) == BigTrim(BigMulFrom(x, q, 1, 0))

\* x * 2^s
BigShl(x, s) ==
    IF x = <<>> THEN <<>>
    ELSE [i \in 1..(s \div LimbBits) |-> 0] \o BigMulSmall(x, Pow2(s % LimbBits))

\* quotient and remainder of x by a small d, from the top digit down
RECURSIVE BigDivModSmallFrom(_, _, _, _)
BigDivModSmallFrom(x, d, i, rem) ==
    IF i = 0 THEN [q |-> <<>>, r |-> rem]
    ELSE LET t == rem * Base + x[i]
             rest == BigDivModSmallFrom(x, d, i - 1, t % d)
         IN  [q |-> Append(rest.q, t \div d), r |-> rest.r]

BigDivModSmall(x, d) ==
    LET dm == BigDivModSmallFrom(x, d, Len(x), 0) IN
    [q |-> BigTrim(dm.q), r |-> dm.r]

\* x \div 2^s: the digits from the one that holds bit s, divided by what is
\* left of the shift
BigDivPow2(x, s) ==
    BigDivModSmall(SubSeq(x, s \div LimbBits + 1, Len(x)), Pow2(s % LimbBits)).q

\* x % 2^s: the digits up to the one that holds bit s, and of that one the
\* bits below bit s
BigModPow2(x, s) ==
    BigTrim([i \in 1..(IF s \div LimbBits < Len(x) THEN s \div LimbBits + 1
                       ELSE Len(x)) |->
                IF i = s \div LimbBits + 1 THEN x[i] % Pow2(s % LimbBits)
                ELSE x[i]])

BigBitLength(x) ==
    IF x = <<>> THEN 0 ELSE LimbBits * (Len(x) - 1) + BitLength(x[Len(x)])

BigIsOdd(x) == x # <<>> /\ x[1] % 2 = 1

\* x with one more digit 0 at the low end
BigShiftDigit(x) == IF x = <<>> THEN <<>> ELSE <<0>> \o x

\* the greatest digit q with q * y <= x, from a guess that is not below it
RECURSIVE BigFitDigit(_, _, _)
BigFitDigit(y, x, q) ==
    IF BigCmp(BigMulSmall(y, q), x) > 0 THEN BigFitDigit(y, x, q - 1) ELSE q

\* long division, k more digits of the quotient: each is guessed from the
\* top digits of what is left and of y, whose top digit is at least Base / 2
RECURSIVE BigLongDivFrom(_, _, _, _)

\* the digit guessed for x over y, at most Base - 1
BigGuessDigit(x, y, guess) ==
    BigFitDigit(y, x, IF guess < Base THEN guess ELSE Base - 1)

\* one more digit found: it joins q, and x gives up digit * y
BigLongDivDigit(q, x, y, k, digit) ==
    BigLongDivFrom(<<digit>> \o q, BigSub(x, BigMulSmall(y, digit)), y, k - 1)

\* the next digit of the quotient, x being what is left so far
BigLongDivNext(q, x, y, k) ==
    BigLongDivDigit(q, x, y, k,
        BigGuessDigit(x, y,
            (Limb(x, Len(y) + 1) * Base + Limb(x, Len(y))) \div y[Len(y)]))

BigLongDivFrom(q, rem, y, k) ==
    IF k = 0 THEN [q |-> BigTrim(q), r |-> rem]
    ELSE BigLongDivNext(q, BigShiftDigit(rem), y, k)

\* quotient and remainder of x * Base^k by y, for x < 2 * y
BigLongDiv(x, y, k) ==
    IF BigCmp(x, y) >= 0
    THEN BigLongDivFrom(<<1>>, BigSub(x, y), y, k)
    ELSE BigLongDivFrom(<<>>, x, y, k)

FloatZero == [m |-> <<>>, e |-> 0]

\* the float nearest to M * 2^E, ties to the even significand
\* q, or q + 1 when what was cut off is more than half (c > 0), or is half
\* (c = 0) with q odd
RoundHalfEven(q, c) ==
    IF c > 0 \/ (c = 0 /\ BigIsOdd(q)) THEN BigAdd(q, <<1>>) ELSE q

\* q * 2^E for q of Precision bits, or of one more after rounding up
FloatCarry(q, E) ==
    IF BigBitLength(q) > Precision
    THEN [m |-> BigDivPow2(q, 1), e |-> E + 1]
    ELSE [m |-> q, e |-> E]

\* FloatRound for M of n bits
FloatRoundBits(M, E, n) ==
    IF n = 0 THEN FloatZero
    ELSE IF n <= Precision
    THEN [m |-> BigShl(M, Precision - n), e |-> E - (Precision - n)]
    ELSE FloatCarry(
             RoundHalfEven(BigDivPow2(M, n - Precision),
                           BigCmp(BigModPow2(M, n - Precision),
                                  BigShl(<<1>>, n - Precision - 1))),
             E + n - Precision)

FloatRound(M, E) == FloatRoundBits(M, E, BigBitLength(M))

\* float(n) for an int n >= 0
FloatOfInt(n) == FloatRound(BigOfInt(n), 0)

\* a + b
FloatAdd(a, b) ==
    IF a.m = <<>> THEN b
    ELSE IF b.m = <<>> THEN a
    ELSE LET lo == IF a.e < b.e THEN a.e ELSE b.e IN
         FloatRound(BigAdd(BigShl(a.m, a.e - lo), BigShl(b.m, b.e - lo)), lo)

\* n * a for an int n >= 0
FloatMulInt(n, a) == FloatRound(BigMulSmall(a.m, n), a.e)

\* the digits a significand fills, and the bits it is short of filling them
SignificandDigits == (Precision + LimbBits - 1) \div LimbBits

SignificandShift == SignificandDigits * LimbBits - Precision

\* a quotient to some bits more than a significand, and a last bit that
\* tells whether anything was left
Sticky(q, exact) == BigAdd(BigAdd(q, q), IF exact THEN <<>> ELSE <<1>>)

\* of a quotient and remainder, the remainder being `zero` when nothing is left
StickyQuotient(dm, zero) == Sticky(dm.q, dm.r = zero)

\* a / b for b > 0
FloatDiv(a, b) ==
    IF a.m = <<>> THEN FloatZero
    ELSE FloatRound(
             StickyQuotient(BigLongDiv(BigShl(a.m, SignificandShift),
                                       BigShl(b.m, SignificandShift),
                                       SignificandDigits), <<>>),
             a.e - b.e - SignificandDigits * LimbBits - 1)

\* a / n for an int n > 0 of at most 17 bits
FloatDivInt(a, n) ==
    IF a.m = <<>> THEN FloatZero
    ELSE FloatRound(StickyQuotient(BigDivModSmall(BigShl(a.m, 2 * LimbBits), n), 0),
                    a.e - 2 * LimbBits - 1)

\* a < b
FloatLess(a, b) ==
    IF b.m = <<>> THEN FALSE
    ELSE IF a.m = <<>> THEN TRUE
    ELSE a.e < b.e \/ (a.e = b.e /\ BigCmp(a.m, b.m) < 0)

\* the float of a decimal literal of u / Scale
FloatOfUnits(u) == FloatDivInt(FloatOfInt(u), Scale)

\* the integer nearest to 100 * a, ties to the even one
HundredthsOf(M, e) ==
    IF e >= 0 THEN BigToInt(BigShl(M, e))
    ELSE BigToInt(RoundHalfEven(BigDivPow2(M, -e),
                                BigCmp(BigModPow2(M, -e), BigShl(<<1>>, -e - 1))))

Hundredths(a) == HundredthsOf(BigMulSmall(a.m, 100), a.e)

\* round(a, 2): the float of the two-decimal literal nearest to a
Round2(a) == FloatDivInt(FloatOfInt(Hundredths(a)), 100)

-----------------------------------------------------------------------------
(* read_sales_data                                                         *)
(*                                                                         *)
(* The file is the sequence of chunks the text layer decodes it in; a      *)
(* chunk holds the lines it completes and the encodings under which its    *)
(* bytes do not decode.  Iterating the file yields the lines of a chunk    *)
(* once the chunk is decoded, and raises UnicodeDecodeError at the first   *)
(* chunk that is not.                                                      *)

EncodingsToTry == <<"utf-8", "latin-1", "cp1252", "iso-8859-1">>

MinTransactionLines == 50

MaxTransactionLines == 100

HeaderToken ==
    <<"T", "r", "a", "n", "s", "a", "c", "t", "i", "o", "n", "I", "D", "|">>

\* the lines one decoded chunk adds: stripped, blank and header lines skipped
RECURSIVE CleanLines(_)
CleanLines(lines) ==
    IF lines = <<>> THEN <<>>
    ELSE LET line == Strip(Head(lines)) IN
         (IF line = <<>> \/ StartsWith(line, HeaderToken) THEN <<>> ELSE <<line>>)
         \o CleanLines(Tail(lines))

\* the `with open(...)` block under one encoding: the lines appended and
\* whether the iteration ended without UnicodeDecodeError
RECURSIVE ReadChunks(_, _, _)
ReadChunks(chunks, encoding, acc) ==
    IF chunks = <<>> THEN [ok |-> TRUE, lines |-> acc]
    ELSE IF encoding \in Head(chunks).bad THEN [ok |-> FALSE, lines |-> acc]
    ELSE ReadChunks(Tail(chunks), encoding, acc \o CleanLines(Head(chunks).lines))

\* the 50 - 100 lines rule
SizeRejected(count) == count < MinTransactionLines \/ count > MaxTransactionLines

\* the pair read_sales_data returns.  The try block holds the whole for loop
\* over the encodings: an exception under the first encoding leaves the loop
\* for the except clauses, which fall through to the final return.
ReadSalesData(f) ==
    IF ~f.exists THEN [lines |-> <<>>, encoding |-> "None"]
    ELSE IF ~f.readable THEN [lines |-> <<>>, encoding |-> "None"]
    ELSE
    LET got == ReadChunks(f.chunks, EncodingsToTry[1], <<>>) IN
    IF ~got.ok THEN [lines |-> got.lines, encoding |-> "None"]
    ELSE IF SizeRejected(Len(got.lines))
    THEN [lines |-> <<>>, encoding |-> EncodingsToTry[1]]
    ELSE [lines |-> got.lines, encoding |-> EncodingsToTry[1]]

\* a call of read_sales_data
CallReadSalesData ==
    /\ pc = "read"
    /\ LET r == ReadSalesData(file) IN
        /\ sales_data_without_header' = r.lines
        /\ encoding_used' = r.encoding
    /\ pc' = "read_done"
    /\ UNCHANGED <<file, parserVars, filterVars, sales_data, analysis, apiVars>>

-----------------------------------------------------------------------------
(* parse_transactions *)

RequiredNumFields == 8

RequiredFields ==
    <<"TransactionID", "Date", "ProductID", "ProductName",
      "Quantity", "Price", "CustomerID", "Region">>

\* the line is None or blank after trimming
IsEmptyLine(line) == Strip(line) = <<>>

\* a field-count test that lets a line with extra fields through
WrongFieldCountTooFew(fields) == Len(fields) < RequiredNumFields

\* len(fields) != required_num_fields
WrongFieldCount(fields) == Len(fields) # RequiredNumFields

\* fields = [field.strip() for field in fields]
StripFields(fields) == [i \in 1..Len(fields) |-> Strip(fields[i])]

\* product_name: commas to spaces, trimmed, runs of spaces collapsed
CleanProductName(str) == CollapseSpaces(Strip(ReplaceChar(str, ",", <<" ">>)))

\* quantity_str / price_str: commas removed, trimmed
CleanNumber(str) == Strip(ReplaceChar(str, ",", <<>>))

\* int(quantity_str) raises, or not str(quantity).isdigit(), or quantity <= 0
QuantityRejected(q) == ~q.ok \/ ~IntStrIsDigit(q.n) \/ q.n <= 0

\* float(price_str) raises, or str(price) is not digits and a point, or
\* price <= 0 (nan <= 0 and inf <= 0 are False; the digits test rejects both)
PriceRejected(p) == ~p.ok \/ ~FloatStrIsDigit(p) \/ (p.fin /\ p.u <= 0)

\* not TransactionID or not TransactionID.startswith('T')
TransactionIDRejected(tid) == tid = <<>> \/ ~StartsWith(tid, <<"T">>)

\* CustomerID or Region empty or blank
CustomerOrRegionMissing(cid, reg) ==
    cid = <<>> \/ Strip(cid) = <<>> \/ reg = <<>> \/ Strip(reg) = <<>>

NoDate == [ok |-> FALSE, y |-> 0, m |-> 0, d |-> 0]

\* a record that keeps the Quantity text of the line
CleanRecordQuantityText(fields, dt, product_name, quantity, price) ==
    [TransactionID |-> StrV(fields[1]),
     Date          |-> StrV(FormatDate(dt)),
     ProductID     |-> StrV(fields[3]),
     ProductName   |-> StrV(product_name),
     Quantity      |-> StrV(fields[5]),
     Price         |-> FloatV(price),
     CustomerID    |-> StrV(fields[7]),
     Region        |-> StrV(fields[8])]

\* Clean_transaction_record
CleanRecord(fields, dt, product_name, quantity, price) ==
    [TransactionID |-> StrV(fields[1]),
     Date          |-> StrV(FormatDate(dt)),
     ProductID     |-> StrV(fields[3]),
     ProductName   |-> StrV(product_name),
     Quantity      |-> IntV(quantity),
     Price         |-> FloatV(price),
     CustomerID    |-> StrV(fields[7]),
     Region        |-> StrV(fields[8])]

NoRecord == CleanRecord(<<<<>>, <<>>, <<>>, <<>>, <<>>, <<>>, <<>>, <<>>>>,
                        [y |-> 1, m |-> 1, d |-> 1], <<>>, 0, 0)

\* a blank line counted as an invalid record
LineSkippedCounted == [kind |-> "invalid", date |-> NoDate, txn |-> NoRecord]

LineSkipped == [kind |-> "skip", date |-> NoDate, txn |-> NoRecord]

\* the date kept only for a line that is accepted
LineRejectedUndated(dt) == [kind |-> "invalid", date |-> NoDate, txn |-> NoRecord]

LineRejected(dt) == [kind |-> "invalid", date |-> dt, txn |-> NoRecord]

LineEmitted(dt, txn) == [kind |-> "valid", date |-> dt, txn |-> txn]

\* the body of the for loop for one line: what happens to the line, the date
\* appended to dates_list (ok = FALSE: none) and the record appended
ParseLine(line) ==
    IF IsEmptyLine(line) THEN LineSkipped
    ELSE
    LET split == Split(Strip(line), "|") IN
    IF WrongFieldCount(split) THEN LineRejected(NoDate)
    ELSE
    LET fields == StripFields(split)
        dt == ParseDate(fields[2])
    IN
    IF ~dt.ok THEN LineRejected(NoDate)
    ELSE
    LET product_name == CleanProductName(fields[4])
        q == ParseInt(CleanNumber(fields[5]))
    IN
    IF QuantityRejected(q) THEN LineRejected(dt)
    ELSE
    LET p == ParseFloat(CleanNumber(fields[6])) IN
    IF PriceRejected(p) THEN LineRejected(dt)
    ELSE IF TransactionIDRejected(fields[1]) THEN LineRejected(dt)
    ELSE IF CustomerOrRegionMissing(fields[7], fields[8]) THEN LineRejected(dt)
    ELSE LineEmitted(dt, CleanRecord(fields, dt, product_name, q.n, p.u))

\* strftime('%B'): the month names of the C locale
MonthNames ==
    << <<"J", "a", "n", "u", "a", "r", "y">>,
       <<"F", "e", "b", "r", "u", "a", "r", "y">>,
       <<"M", "a", "r", "c", "h">>,
       <<"A", "p", "r", "i", "l">>,
       <<"M", "a", "y">>,
       <<"J", "u", "n", "e">>,
       <<"J", "u", "l", "y">>,
       <<"A", "u", "g", "u", "s", "t">>,
       <<"S", "e", "p", "t", "e", "m", "b", "e", "r">>,
       <<"O", "c", "t", "o", "b", "e", "r">>,
       <<"N", "o", "v", "e", "m", "b", "e", "r">>,
       <<"D", "e", "c", "e", "m", "b", "e", "r">> >>

\* date.strftime('%B %Y')
MonthYear(dt) == MonthNames[dt.m] \o <<" ">> \o IntToStr(dt.y)

\* min(dates_list) and max(dates_list): the first of the least, of the greatest
MinDate(dates) ==
    dates[CHOOSE i \in 1..Len(dates) :
            /\ \A j \in 1..Len(dates) : DateOrd(dates[i]) <= DateOrd(dates[j])
            /\ \A j \in 1..(i - 1) : DateOrd(dates[j]) # DateOrd(dates[i])]

MaxDate(dates) ==
    dates[CHOOSE i \in 1..Len(dates) :
            /\ \A j \in 1..Len(dates) : DateOrd(dates[i]) >= DateOrd(dates[j])
            /\ \A j \in 1..(i - 1) : DateOrd(dates[j]) # DateOrd(dates[i])]

NotAvailable == <<"N", "/", "A">>

\* date_range_str
DateRange(dates) ==
    IF dates # <<>>
    THEN MonthYear(MinDate(dates)) \o <<" ", "t", "o", " ">> \o MonthYear(MaxDate(dates))
    ELSE NotAvailable

\* an iteration that ends the loop at the first rejected line
ParseStepAborting ==
    /\ pc = "parse"
    /\ idx < Len(raw_lines)
    /\ LET out == ParseLine(raw_lines[idx + 1]) IN
        /\ idx' = IF out.kind = "invalid" THEN Len(raw_lines) ELSE idx + 1
        /\ total_records_parsed' =
               IF out.kind = "skip" THEN total_records_parsed
               ELSE total_records_parsed + 1
        /\ invalid_records_removed' =
               IF out.kind = "invalid" THEN invalid_records_removed + 1
               ELSE invalid_records_removed
        /\ valid_records_after_cleaning' =
               IF out.kind = "valid" THEN valid_records_after_cleaning + 1
               ELSE valid_records_after_cleaning
        /\ dates_list' =
               IF out.date.ok THEN Append(dates_list, out.date) ELSE dates_list
        /\ parsed_transactions' =
               IF out.kind = "valid" THEN Append(parsed_transactions, out.txn)
               ELSE parsed_transactions
    /\ UNCHANGED <<pc, raw_lines, date_range, readerVars, filterVars, sales_data,
                   analysis, apiVars>>

\* one iteration of `for idx, line in enumerate(raw_lines, start=1)`
ParseStep ==
    /\ pc = "parse"
    /\ idx < Len(raw_lines)
    /\ LET out == ParseLine(raw_lines[idx + 1]) IN
        /\ idx' = idx + 1
        /\ total_records_parsed' =
               IF out.kind = "skip" THEN total_records_parsed
               ELSE total_records_parsed + 1
        /\ invalid_records_removed' =
               IF out.kind = "invalid" THEN invalid_records_removed + 1
               ELSE invalid_records_removed
        /\ valid_records_after_cleaning' =
               IF out.kind = "valid" THEN valid_records_after_cleaning + 1
               ELSE valid_records_after_cleaning
        /\ dates_list' =
               IF out.date.ok THEN Append(dates_list, out.date) ELSE dates_list
        /\ parsed_transactions' =
               IF out.kind = "valid" THEN Append(parsed_transactions, out.txn)
               ELSE parsed_transactions
    /\ UNCHANGED <<pc, raw_lines, date_range, readerVars, filterVars, sales_data,
                   analysis, apiVars>>

\* the loop is over: the summary is logged and parsed_transactions returned
ParseReturn ==
    /\ pc = "parse"
    /\ idx = Len(raw_lines)
    /\ date_range' = DateRange(dates_list)
    /\ pc' = "parsed"
    /\ UNCHANGED <<raw_lines, idx, parsed_transactions, total_records_parsed,
                   invalid_records_removed, valid_records_after_cleaning,
                   dates_list, readerVars, filterVars, sales_data, analysis, apiVars>>

-----------------------------------------------------------------------------
(* validate_and_filter *)

HasAllFields(txn) ==
    \A i \in 1..Len(RequiredFields) : RequiredFields[i] \in DOMAIN txn

\* isinstance(v, int) and v > 0
PositiveInt(v) == v.t = "int" /\ v.n > 0

\* isinstance(v, float) and v > 0
PositiveFloat(v) == v.t = "float" /\ v.n > 0

\* v.startswith(prefix); a value that is no str raises AttributeError, which
\* the per-transaction except clause counts as invalid like a failed test
HasPrefix(v, prefix) == v.t = "str" /\ StartsWith(v.s, prefix)

\* a Stage A that forgets the ProductID prefix
StageAValidNoProductCheck(txn) ==
    /\ HasAllFields(txn)
    /\ PositiveInt(txn.Quantity)
    /\ PositiveFloat(txn.Price)
    /\ HasPrefix(txn.TransactionID, <<"T">>)
    /\ HasPrefix(txn.CustomerID, <<"C">>)

\* Stage A: the transaction is appended to valid_transactions
StageAValid(txn) ==
    /\ HasAllFields(txn)
    /\ PositiveInt(txn.Quantity)
    /\ PositiveFloat(txn.Price)
    /\ HasPrefix(txn.TransactionID, <<"T">>)
    /\ HasPrefix(txn.CustomerID, <<"C">>)
    /\ HasPrefix(txn.ProductID, <<"P">>)

\* the elements of a list that satisfy keep[i], in order
RECURSIVE Keep(_, _)
Keep(list, keep) ==
    IF list = <<>> THEN <<>>
    ELSE (IF Head(keep) THEN <<Head(list)>> ELSE <<>>)
         \o Keep(Tail(list), Tail(keep))

\* valid_transactions after the Stage A loop
ValidTransactions(txns) ==
    Keep(txns, [i \in 1..Len(txns) |-> StageAValid(txns[i])])

\* a count of the different records Stage A rejects
InvalidCountDistinct(txns) ==
    Cardinality({txns[i] : i \in {k \in 1..Len(txns) : ~StageAValid(txns[k])}})

\* invalid_count after the Stage A loop
InvalidCount(txns) ==
    Cardinality({i \in 1..Len(txns) : ~StageAValid(txns[i])})

\* a pass-through test that forgets `region is None`
NoFiltersRequestedEmptyRegionOnly(reg, lo, hi) ==
    reg = StrV(<<>>) /\ lo.t = "none" /\ hi.t = "none"

\* (region == "" or region is None) and min_amount is None and max_amount is None
NoFiltersRequested(reg, lo, hi) ==
    (reg = StrV(<<>>) \/ reg.t = "none") /\ lo.t = "none" /\ hi.t = "none"

\* `if region`: a non-empty string
RegionGiven(reg) == reg.t = "str" /\ reg.s # <<>>

\* a region match that compares without lowering
RegionMatchesCaseSensitive(txn, reg) == txn.Region.s = reg.s

\* txn['Region'].lower() == region.lower()
RegionMatches(txn, reg) == Lower(txn.Region.s) = Lower(reg.s)

\* a region stage in which .lower() never raises
RegionNeverRaises(valid, reg) == FALSE

\* txn['Region'].lower() raises AttributeError for a Region that is no str
RegionRaises(valid, reg) ==
    RegionGiven(reg) /\ \E i \in 1..Len(valid) : valid[i].Region.t # "str"

\* a region stage that passes nothing when no region is given
RegionFilteredOnlyWhenGiven(valid, reg) ==
    IF RegionGiven(reg)
    THEN Keep(valid, [i \in 1..Len(valid) |-> RegionMatches(valid[i], reg)])
    ELSE <<>>

\* region_filtered
RegionFiltered(valid, reg) ==
    IF RegionGiven(reg)
    THEN Keep(valid, [i \in 1..Len(valid) |-> RegionMatches(valid[i], reg)])
    ELSE valid

\* txn in list (by ==)
InList(txn, list) == \E i \in 1..Len(list) : list[i] = txn

\* [txn for txn in source if txn not in removed]
NotIn(source, removed) ==
    Keep(source, [i \in 1..Len(source) |-> ~InList(source[i], removed)])

\* a number in units of 1/Scale
Units(v) == IF v.t = "int" THEN v.n * Scale ELSE v.n

IsNumber(v) == v.t \in {"int", "float"}

\* amount = txn['Quantity'] * txn['Price']
Amount(txn) == txn.Quantity.n * txn.Price.n

\* an amount test whose bounds are exclusive
AmountTestExclusive(txn, lo, hi) ==
    IF lo.t = "none" /\ hi.t = "none" THEN "match"
    ELSE IF lo.t # "none" /\ hi.t = "none"
    THEN (IF ~IsNumber(lo) THEN "raise"
          ELSE IF Amount(txn) > Units(lo) THEN "match" ELSE "nomatch")
    ELSE IF lo.t = "none" /\ hi.t # "none"
    THEN (IF ~IsNumber(hi) THEN "raise"
          ELSE IF Amount(txn) < Units(hi) THEN "match" ELSE "nomatch")
    ELSE (IF ~IsNumber(lo) THEN "raise"
          ELSE IF ~(Amount(txn) > Units(lo)) THEN "nomatch"
          ELSE IF ~IsNumber(hi) THEN "raise"
          ELSE IF Amount(txn) < Units(hi) THEN "match" ELSE "nomatch")

\* the amount test of one transaction: "match" (appended to amount_filtered),
\* "nomatch", or "raise" (a bound that is no number is compared: TypeError)
AmountTest(txn, lo, hi) ==
    IF lo.t = "none" /\ hi.t = "none" THEN "match"
    ELSE IF lo.t # "none" /\ hi.t = "none"
    THEN (IF ~IsNumber(lo) THEN "raise"
          ELSE IF Amount(txn) >= Units(lo) THEN "match" ELSE "nomatch")
    ELSE IF lo.t = "none" /\ hi.t # "none"
    THEN (IF ~IsNumber(hi) THEN "raise"
          ELSE IF Amount(txn) <= Units(hi) THEN "match" ELSE "nomatch")
    ELSE (IF ~IsNumber(lo) THEN "raise"
          ELSE IF ~(Amount(txn) >= Units(lo)) THEN "nomatch"
          ELSE IF ~IsNumber(hi) THEN "raise"
          ELSE IF Amount(txn) <= Units(hi) THEN "match" ELSE "nomatch")

AmountRaises(rest, lo, hi) ==
    \E i \in 1..Len(rest) : AmountTest(rest[i], lo, hi) = "raise"

\* amount_filtered
AmountFiltered(rest, lo, hi) ==
    Keep(rest, [i \in 1..Len(rest) |-> AmountTest(rest[i], lo, hi) = "match"])

Summary(total, invalid, by_region, by_amount, final) ==
    [error |-> FALSE, total_input |-> total, invalid |-> invalid,
     filtered_by_region |-> by_region, filtered_by_amount |-> by_amount,
     final_count |-> final]

\* {'error': str(e)}
ErrorSummary ==
    [error |-> TRUE, total_input |-> 0, invalid |-> 0, filtered_by_region |-> 0,
     filtered_by_amount |-> 0, final_count |-> 0]

\* the tuple validate_and_filter returns
ValidateAndFilter(txns, reg, lo, hi) ==
    LET valid == ValidTransactions(txns)
        invalid == InvalidCount(txns)
    IN
    IF NoFiltersRequested(reg, lo, hi)
    THEN [txns |-> valid, invalid_count |-> invalid,
          summary |-> Summary(Len(txns), invalid, 0, 0, Len(valid))]
    ELSE IF RegionRaises(valid, reg)
    THEN [txns |-> <<>>, invalid_count |-> invalid, summary |-> ErrorSummary]
    ELSE
    LET region_filtered == RegionFiltered(valid, reg)
        rest == NotIn(valid, region_filtered)
    IN
    IF AmountRaises(rest, lo, hi)
    THEN [txns |-> <<>>, invalid_count |-> invalid, summary |-> ErrorSummary]
    ELSE
    LET amount_filtered == AmountFiltered(rest, lo, hi)
        remaining == NotIn(rest, amount_filtered)
    IN  [txns |-> remaining, invalid_count |-> invalid,
         summary |-> Summary(Len(txns), invalid, Len(region_filtered),
                             Len(amount_filtered), Len(remaining))]

\* what the user types at the prompts of main
RegionInputs == { <<>>, <<"S", "o", "u", "t", "h">> }

AmountInputs == { <<>>, <<"1", "1">> }

\* a call of validate_and_filter
CallValidateAndFilter ==
    /\ pc = "filter"
    /\ filter_result' = ValidateAndFilter(transactions, region, min_amount, max_amount)
    /\ pc' = "filtered"
    /\ UNCHANGED <<transactions, region, min_amount, max_amount,
                   readerVars, parserVars, sales_data, analysis, apiVars>>

-----------------------------------------------------------------------------
(* DataProcessor: the Aggregators.  Every record they are given in the     *)
(* model carries the eight fields, and every number is finite and not      *)
(* negative.                                                               *)

\* int(v): ok is FALSE where int() raises ValueError or TypeError
IntOf(v) ==
    IF v.t = "int" THEN [ok |-> TRUE, n |-> v.n]
    ELSE IF v.t = "float" THEN [ok |-> TRUE, n |-> v.n \div Scale]
    ELSE IF v.t = "str" THEN ParseInt(v.s)
    ELSE [ok |-> FALSE, n |-> 0]

\* float(v): ok is FALSE where float() raises ValueError or TypeError
FloatOfParsed(parsed) ==
    IF parsed.ok THEN [ok |-> TRUE, f |-> FloatOfUnits(parsed.u)]
    ELSE [ok |-> FALSE, f |-> FloatZero]

FloatOf(v) ==
    IF v.t = "int" THEN [ok |-> TRUE, f |-> FloatOfInt(v.n)]
    ELSE IF v.t = "float" THEN FloatOfParsed([ok |-> TRUE, u |-> v.n])
    ELSE IF v.t = "str" THEN FloatOfParsed(ParseFloat(v.s))
    ELSE [ok |-> FALSE, f |-> FloatZero]

\* record.get(field, 0)
GetOrZero(record, field) ==
    IF field \in DOMAIN record THEN record[field] ELSE IntV(0)

\* the body of `try: ... int(quantity) * float(price)`: ok is FALSE where
\* the except clause is taken, which leaves quantity 0 and the amount 0.0
ProductOf(q, p) ==
    IF q.ok /\ p.ok
    THEN [ok |-> TRUE, quantity |-> q.n, amount |-> FloatMulInt(q.n, p.f)]
    ELSE [ok |-> FALSE, quantity |-> 0, amount |-> FloatZero]

Product(quantity, price) == ProductOf(IntOf(quantity), FloatOf(price))

\* the records before the last one
Front(list) == SubSeq(list, 1, Len(list) - 1)

Last(list) == list[Len(list)]

\* the except clause gives up the sum made so far
AddRevenueOrReset(total_revenue, revenue) ==
    IF revenue.ok THEN FloatAdd(total_revenue, revenue.amount) ELSE FloatZero

\* `revenue = ...; total_revenue += revenue`, or `continue` in the except
\* clause
AddRevenue(total_revenue, revenue) ==
    IF revenue.ok THEN FloatAdd(total_revenue, revenue.amount) ELSE total_revenue

\* calculate_total_revenue: the loop, record after record
RECURSIVE CalculateTotalRevenue(_)
CalculateTotalRevenue(sales) ==
    IF sales = <<>> THEN FloatZero
    ELSE AddRevenue(CalculateTotalRevenue(Front(sales)),
                    Product(GetOrZero(Last(sales), "Quantity"),
                            GetOrZero(Last(sales), "Price")))

\* A dict is the sequence of its items in insertion order; an item holds its
\* key and the fields of its value.  The place of a key, 0 when it is new
KeyIndex(dict, key) ==
    IF \E i \in 1..Len(dict) : dict[i].key = key
    THEN CHOOSE i \in 1..Len(dict) : dict[i].key = key
    ELSE 0

\* `if key not in dict: dict[key] = fresh`
SetDefault(dict, key, fresh) ==
    IF KeyIndex(dict, key) = 0 THEN Append(dict, fresh) ELSE dict

\* sorted(): stable.  Before(a, b) tells that a's key orders strictly before
\* b's; an item comes after those that order before it and those that order
\* the same and stand earlier
Sorted(list, Before(_, _)) ==
    LET Ahead(i) == {j \in 1..Len(list) :
                        \/ Before(list[j], list[i])
                        \/ ~Before(list[i], list[j]) /\ j < i}
    IN  [p \in 1..Len(list) |->
            list[CHOOSE i \in 1..Len(list) : Cardinality(Ahead(i)) = p - 1]]

\* the characters of the model in code point order
CodePoints ==
    <<" ", ",", "-", ".", "/", "0", "1", "2", "3", "4", "5", "6", "7", "8", "9">>
    \o UpperLetters \o <<"_">> \o LowerLetters \o <<"|">>

CodePoint(c) == CHOOSE i \in 1..Len(CodePoints) : CodePoints[i] = c

\* a < b for two str
RECURSIVE StrLess(_, _)
StrLess(a, b) ==
    IF b = <<>> THEN FALSE
    ELSE IF a = <<>> THEN TRUE
    ELSE IF Head(a) # Head(b) THEN CodePoint(Head(a)) < CodePoint(Head(b))
    ELSE StrLess(Tail(a), Tail(b))

\* sorted(list(a set of str))
SortedSet(strs) ==
    [p \in 1..Cardinality(strs) |->
        CHOOSE x \in strs :
            Cardinality({y \in strs : StrLess(y.s, x.s)}) = p - 1]

\* region_wise_sales: region_sales after the loop over the records
\* `=` for `+=`
AddRegionSaleAssigned(region_sales, name, amount) ==
    [region_sales EXCEPT
        ![KeyIndex(region_sales, name)].total_sales = amount,
        ![KeyIndex(region_sales, name)].transaction_count = @ + 1]

\* the body of the loop after the default entry is made
AddRegionSale(region_sales, name, amount) ==
    [region_sales EXCEPT
        ![KeyIndex(region_sales, name)].total_sales = FloatAdd(@, amount),
        ![KeyIndex(region_sales, name)].transaction_count = @ + 1]

RECURSIVE RegionSales(_)
RegionSales(sales) ==
    IF sales = <<>> THEN <<>>
    ELSE AddRegionSale(
             SetDefault(RegionSales(Front(sales)), Last(sales).Region,
                        [key |-> Last(sales).Region, total_sales |-> FloatZero,
                         transaction_count |-> 0]),
             Last(sales).Region,
             Product(Last(sales).Quantity, Last(sales).Price).amount)

\* the share of one, not of a hundred
PercentageOfOne(total_sales, total_revenue) ==
    IF FloatLess(FloatZero, total_revenue)
    THEN Round2(FloatDiv(total_sales, total_revenue))
    ELSE FloatZero

\* round((total_sales / total_revenue) * 100, 2) if total_revenue > 0 else 0.0
Percentage(total_sales, total_revenue) ==
    IF FloatLess(FloatZero, total_revenue)
    THEN Round2(FloatMulInt(100, FloatDiv(total_sales, total_revenue)))
    ELSE FloatZero

\* the loop that adds the percentage to every region
RECURSIVE WithPercentage(_, _)
WithPercentage(region_sales, total_revenue) ==
    IF region_sales = <<>> THEN <<>>
    ELSE LET stats == Last(region_sales) IN
         Append(WithPercentage(Front(region_sales), total_revenue),
                [key |-> stats.key,
                 total_sales |-> stats.total_sales,
                 transaction_count |-> stats.transaction_count,
                 percentage |-> Percentage(stats.total_sales, total_revenue)])

\* region_wise_sales: the regions by total_sales, descending
RegionWiseSales(sales) ==
    Sorted(WithPercentage(RegionSales(sales), CalculateTotalRevenue(sales)),
           LAMBDA a, b : FloatLess(b.total_sales, a.total_sales))

\* top_selling_products, low_performing_products: product_sales after the
\* loop over the records
AddProductSale(product_sales, product, revenue) ==
    [product_sales EXCEPT
        ![KeyIndex(product_sales, product)].total_quantity = @ + revenue.quantity,
        ![KeyIndex(product_sales, product)].total_revenue =
            FloatAdd(@, revenue.amount)]

RECURSIVE ProductSales(_)
ProductSales(sales) ==
    IF sales = <<>> THEN <<>>
    ELSE AddProductSale(
             SetDefault(ProductSales(Front(sales)), Last(sales).ProductName,
                        [key |-> Last(sales).ProductName, total_quantity |-> 0,
                         total_revenue |-> FloatZero]),
             Last(sales).ProductName,
             Product(Last(sales).Quantity, Last(sales).Price))

\* (product, total_quantity, round(total_revenue, 2)) for every item
RECURSIVE ProductTuples(_)
ProductTuples(items) ==
    IF items = <<>> THEN <<>>
    ELSE Append(ProductTuples(Front(items)),
                [product |-> Last(items).key,
                 total_quantity |-> Last(items).total_quantity,
                 total_revenue |-> Round2(Last(items).total_revenue)])

\* the whole list, n forgotten
PrefixAll(list, n) == list

\* list[:n]
Prefix(list, n) ==
    SubSeq(list, 1, IF n >= Len(list) THEN Len(list)
                    ELSE IF n >= 0 THEN n
                    ELSE IF Len(list) + n >= 0 THEN Len(list) + n
                    ELSE 0)

\* top_selling_products
TopSellingProducts(sales, n) ==
    ProductTuples(
        Prefix(Sorted(ProductSales(sales),
                      LAMBDA a, b : a.total_quantity > b.total_quantity), n))

\* customer_analysis: customer_stats after the loop over the records
AddPurchase(customer_stats, customer, product, revenue) ==
    [customer_stats EXCEPT
        ![KeyIndex(customer_stats, customer)].total_spent = FloatAdd(@, revenue),
        ![KeyIndex(customer_stats, customer)].purchase_count = @ + 1,
        ![KeyIndex(customer_stats, customer)].products = @ \cup {product}]

RECURSIVE CustomerStats(_)
CustomerStats(sales) ==
    IF sales = <<>> THEN <<>>
    ELSE AddPurchase(
             SetDefault(CustomerStats(Front(sales)), Last(sales).CustomerID,
                        [key |-> Last(sales).CustomerID, total_spent |-> FloatZero,
                         purchase_count |-> 0, products |-> {}]),
             Last(sales).CustomerID, Last(sales).ProductName,
             Product(Last(sales).Quantity, Last(sales).Price).amount)

\* the loop that adds avg_order_value and products_bought
RECURSIVE WithAverage(_)
WithAverage(customer_stats) ==
    IF customer_stats = <<>> THEN <<>>
    ELSE LET stats == Last(customer_stats) IN
         Append(WithAverage(Front(customer_stats)),
                [key |-> stats.key,
                 total_spent |-> stats.total_spent,
                 purchase_count |-> stats.purchase_count,
                 avg_order_value |->
                     Round2(FloatDivInt(stats.total_spent, stats.purchase_count)),
                 products_bought |-> SortedSet(stats.products)])

\* customer_analysis: the customers by total_spent, descending
CustomerAnalysis(sales) ==
    Sorted(WithAverage(CustomerStats(sales)),
           LAMBDA a, b : FloatLess(b.total_spent, a.total_spent))

\* daily_sales_trend: daily_sales after the loop over the records
AddDailySale(daily_sales, date, customer, amount) ==
    [daily_sales EXCEPT
        ![KeyIndex(daily_sales, date)].total_revenue = FloatAdd(@, amount),
        ![KeyIndex(daily_sales, date)].transaction_count = @ + 1,
        ![KeyIndex(daily_sales, date)].unique_customers = @ \cup {customer}]

RECURSIVE DailySales(_)
DailySales(sales) ==
    IF sales = <<>> THEN <<>>
    ELSE AddDailySale(
             SetDefault(DailySales(Front(sales)), Last(sales).Date,
                        [key |-> Last(sales).Date, total_revenue |-> FloatZero,
                         transaction_count |-> 0, unique_customers |-> {}]),
             Last(sales).Date, Last(sales).CustomerID,
             Product(Last(sales).Quantity, Last(sales).Price).amount)

\* the loop that turns the set of customers into its size
RECURSIVE WithCustomerCount(_)
WithCustomerCount(daily_sales) ==
    IF daily_sales = <<>> THEN <<>>
    ELSE LET stats == Last(daily_sales) IN
         Append(WithCustomerCount(Front(daily_sales)),
                [key |-> stats.key,
                 total_revenue |-> stats.total_revenue,
                 transaction_count |-> stats.transaction_count,
                 unique_customers |-> Cardinality(stats.unique_customers)])

\* the dates in the order the records first name them
DailySalesTrendUnsorted(sales) == WithCustomerCount(DailySales(sales))

\* daily_sales_trend: the dates by their text, ascending
DailySalesTrend(sales) ==
    Sorted(WithCustomerCount(DailySales(sales)),
           LAMBDA a, b : StrLess(a.key.s, b.key.s))

\* find_peak_sales_day: daily_sales after the loop over the records
AddDailyRevenue(daily_sales, date, amount) ==
    [daily_sales EXCEPT
        ![KeyIndex(daily_sales, date)].revenue = FloatAdd(@, amount),
        ![KeyIndex(daily_sales, date)].transaction_count = @ + 1]

RECURSIVE DailyRevenue(_)
DailyRevenue(sales) ==
    IF sales = <<>> THEN <<>>
    ELSE AddDailyRevenue(
             SetDefault(DailyRevenue(Front(sales)), Last(sales).Date,
                        [key |-> Last(sales).Date, revenue |-> FloatZero,
                         transaction_count |-> 0]),
             Last(sales).Date,
             Product(Last(sales).Quantity, Last(sales).Price).amount)

\* the last item of the greatest key, instead of the first
MaxByRevenueLast(daily_sales) ==
    daily_sales[CHOOSE i \in 1..Len(daily_sales) :
        /\ \A j \in 1..Len(daily_sales) :
               ~FloatLess(daily_sales[i].revenue, daily_sales[j].revenue)
        /\ \A j \in (i + 1)..Len(daily_sales) :
               FloatLess(daily_sales[j].revenue, daily_sales[i].revenue)]

\* max(daily_sales.items(), key=revenue): the first item of the greatest key
MaxByRevenue(daily_sales) ==
    daily_sales[CHOOSE i \in 1..Len(daily_sales) :
        /\ \A j \in 1..Len(daily_sales) :
               ~FloatLess(daily_sales[i].revenue, daily_sales[j].revenue)
        /\ \A j \in 1..(i - 1) :
               FloatLess(daily_sales[j].revenue, daily_sales[i].revenue)]

\* find_peak_sales_day.  With no record peak_data is None, and
\* peak_data['revenue'] in the return statement raises TypeError
PeakOf(peak_data) ==
    [raised |-> FALSE,
     peak_day |-> peak_data.key,
     revenue |-> Round2(peak_data.revenue),
     transaction_count |-> peak_data.transaction_count]

PeakOfDays(daily_sales) ==
    IF daily_sales = <<>>
    THEN [raised |-> TRUE, peak_day |-> NoneV, revenue |-> FloatZero,
          transaction_count |-> 0]
    ELSE PeakOf(MaxByRevenue(daily_sales))

FindPeakSalesDay(sales) == PeakOfDays(DailyRevenue(sales))

\* the products up to and including the threshold
LowPerformingProductsInclusive(sales, threshold) ==
    Sorted(ProductTuples(SelectSeq(ProductSales(sales),
                             LAMBDA stats : stats.total_quantity <= threshold)),
           LAMBDA a, b : a.total_quantity < b.total_quantity)

\* low_performing_products: the products under the threshold by quantity,
\* ascending
LowPerformingProducts(sales, threshold) ==
    Sorted(ProductTuples(SelectSeq(ProductSales(sales),
                             LAMBDA stats : stats.total_quantity < threshold)),
           LAMBDA a, b : a.total_quantity < b.total_quantity)

\* the arguments the calls are made with
TopNs == {1, 2, 5}

Thresholds == {3, 10}

NoPeak ==
    [raised |-> FALSE, peak_day |-> NoneV, revenue |-> FloatZero,
     transaction_count |-> 0]

NoAnalysis ==
    [total_revenue |-> FloatZero, region_sales |-> <<>>, n |-> 0,
     top_products |-> <<>>, customer_stats |-> <<>>, daily_sales_trend |-> <<>>,
     peak_data |-> NoPeak, threshold |-> 0, low_performing_products |-> <<>>]

otherVars == <<readerVars, parserVars, filterVars, apiVars>>

\* the calls of the Aggregators, in the order main makes them
CallCalculateTotalRevenue ==
    /\ pc = "calculate_total_revenue"
    /\ analysis' = [analysis EXCEPT
                      !.total_revenue = CalculateTotalRevenue(sales_data)]
    /\ pc' = "region_wise_sales"
    /\ UNCHANGED <<otherVars, sales_data>>

CallRegionWiseSales ==
    /\ pc = "region_wise_sales"
    /\ analysis' = [analysis EXCEPT !.region_sales = RegionWiseSales(sales_data)]
    /\ pc' = "top_selling_products"
    /\ UNCHANGED <<otherVars, sales_data>>

CallTopSellingProducts ==
    /\ pc = "top_selling_products"
    /\ \E n \in TopNs :
          analysis' = [analysis EXCEPT
                         !.n = n,
                         !.top_products = TopSellingProducts(sales_data, n)]
    /\ pc' = "customer_analysis"
    /\ UNCHANGED <<otherVars, sales_data>>

CallCustomerAnalysis ==
    /\ pc = "customer_analysis"
    /\ analysis' = [analysis EXCEPT
                      !.customer_stats = CustomerAnalysis(sales_data)]
    /\ pc' = "daily_sales_trend"
    /\ UNCHANGED <<otherVars, sales_data>>

CallDailySalesTrend ==
    /\ pc = "daily_sales_trend"
    /\ analysis' = [analysis EXCEPT
                      !.daily_sales_trend = DailySalesTrend(sales_data)]
    /\ pc' = "find_peak_sales_day"
    /\ UNCHANGED <<otherVars, sales_data>>

\* an exception leaves the call, and main, which catches nothing
CallFindPeakSalesDay ==
    /\ pc = "find_peak_sales_day"
    /\ analysis' = [analysis EXCEPT !.peak_data = FindPeakSalesDay(sales_data)]
    /\ pc' = IF analysis'.peak_data.raised THEN "crashed"
             ELSE "low_performing_products"
    /\ UNCHANGED <<otherVars, sales_data>>

CallLowPerformingProducts ==
    /\ pc = "low_performing_products"
    /\ \E threshold \in Thresholds :
          analysis' = [analysis EXCEPT
                         !.threshold = threshold,
                         !.low_performing_products =
                             LowPerformingProducts(sales_data, threshold)]
    /\ pc' = "analyzed"
    /\ UNCHANGED <<otherVars, sales_data>>

-----------------------------------------------------------------------------
(* Input lines *)

TxnT1 == <<"T", "1">>

TxnT2 == <<" ", "T", "2", " ">>

TxnT3 == <<"T", "3">>

TxnX1 == <<"X", "1">>

DateDec1 == <<"2", "0", "2", "4", "-", "1", "2", "-", "0", "1">>

DateJan5 == <<"2", "0", "2", "4", "-", "1", "-", "5">>

DateFeb30 == <<"2", "0", "2", "4", "-", "0", "2", "-", "3", "0">>

DateSlash == <<"2", "0", "2", "4", "/", "1", "2", "/", "0", "1">>

ProdP1 == <<"P", "1">>

ProdP2 == <<"P", "2">>

ProdQ1 == <<"Q", "1">>

NamePen == <<"P", "e", "n">>

NameMessy == <<"A", ",", ",", "b", " ", " ", "c">>

Qty2 == <<"2">>

Qty1 == <<"1">>

QtyComma == <<"1", ",", "0">>

Qty0 == <<"0">>

QtyNeg == <<"-", "1">>

QtyDec == <<"2", ".", "0">>

Price5p5 == <<"5", ".", "5">>

PriceComma == <<"1", ",", "0", ".", "2", "5">>

PriceTiny == <<"0", ".", "0", "0", "0", "0", "1">>

Price0 == <<"0">>

PriceNeg == <<"-", "5">>

PriceX == <<"x">>

PriceInf == <<"i", "n", "f">>

CustC1 == <<"C", "1">>

CustC2 == <<"C", "2">>

CustX9 == <<"X", "9">>

RegNorth == <<"N", "o", "r", "t", "h">>

RegSouth == <<"s", "o", "u", "t", "h">>

Empty == <<>>

RECURSIVE JoinFields(_)
JoinFields(fields) ==
    IF Len(fields) = 1 THEN fields[1]
    ELSE fields[1] \o <<"|">> \o JoinFields(Tail(fields))

GoodFields == <<TxnT1, DateDec1, ProdP1, NamePen, Qty2, Price5p5, CustC1, RegNorth>>

\* GoodFields with field i replaced
With(i, str) == [GoodFields EXCEPT ![i] = str]

With2(i, a, j, b) == [GoodFields EXCEPT ![i] = a, ![j] = b]

GoodLine == JoinFields(GoodFields)

MessyLine ==
    JoinFields(<<TxnT2, DateJan5, ProdP2, NameMessy, QtyComma, PriceComma,
                 CustC2, RegSouth>>)

ParserLines ==
    { GoodLine, MessyLine,
      <<" ", " ">>,
      JoinFields(SubSeq(GoodFields, 1, 7)),
      JoinFields(Append(GoodFields, Empty)),
      JoinFields(With(1, TxnX1)),
      JoinFields(With(2, DateFeb30)),
      JoinFields(With(2, DateSlash)),
      JoinFields(With(3, ProdQ1)),
      JoinFields(With(3, Empty)),
      JoinFields(With(5, Qty0)),
      JoinFields(With2(2, DateJan5, 5, Qty0)),
      JoinFields(With(5, QtyNeg)),
      JoinFields(With(5, QtyDec)),
      JoinFields(With2(1, TxnT3, 6, PriceTiny)),
      JoinFields(With(6, Price0)),
      JoinFields(With(6, PriceNeg)),
      JoinFields(With(6, PriceX)),
      JoinFields(With(6, PriceInf)),
      JoinFields(With(7, CustX9)),
      JoinFields(With(7, Empty)),
      JoinFields(With(8, Empty)) }

\* the lists of at most n elements of S
SeqsUpTo(S, n) == UNION { [1..k -> S] : k \in 0..n }

-----------------------------------------------------------------------------
(* ApiHandler: fetch_all_products, create_product_mapping and              *)
(* enrich_sales_data.  A dict whose keys vary (a product of the API, an     *)
(* entry of the mapping) is a function on its keys; the mapping is the      *)
(* sequence of its items, as the dicts of the Aggregators are.              *)

\* the default of max_retries
DefaultMaxRetries == 3

\* dict.get(key, None)
GetOrNone(dict, key) == IF key \in DOMAIN dict THEN dict[key] ELSE NoneV

\* the six fields a product of the response is normalized to
NormalizedProduct(p) ==
    [id       |-> GetOrNone(p, "id"),
     title    |-> GetOrNone(p, "title"),
     category |-> GetOrNone(p, "category"),
     brand    |-> GetOrNone(p, "brand"),
     price    |-> GetOrNone(p, "price"),
     rating   |-> GetOrNone(p, "rating")]

NormalizedProducts(products) ==
    [i \in 1..Len(products) |-> NormalizedProduct(products[i])]

\* products the API answers with: one with id 1, and one that has no id
ProductOne ==
    [id       |-> IntV(1),
     title    |-> StrV(<<"P", "e", "n">>),
     category |-> StrV(<<"o", "f", "f", "i", "c", "e">>),
     brand    |-> StrV(<<"B", "i", "c">>),
     price    |-> IntV(5),
     rating   |-> IntV(4)]

ProductNoId ==
    [title    |-> StrV(<<"B", "o", "x">>),
     category |-> StrV(<<"m", "i", "s", "c">>),
     price    |-> IntV(9)]

\* data.get("products", []) of the responses that are read without an exception
Catalogs == SeqsUpTo({ProductOne, ProductNoId}, MaxProducts)

NoResponse == [kind |-> "none", products |-> <<>>]

\* the two exceptions after which the loop goes on
RetriedKinds == {"timeout", "connection_error"}

\* requests.exceptions.HTTPError, and any other Exception (of requests.get,
\* of response.json(), of data.get, of the normalizing loop)
BreakingKinds == {"http_error", "exception"}

fetchVars == <<max_retries, attempt, requests, response, all_products>>

enrichVars == <<product_mapping, enriched_data, non_enriched_data,
                total_enriched, total_non_enriched>>

\* a pass of the while loop in which nothing raises: the normalized products
\* are returned
RequestSucceeds ==
    /\ pc = "fetch_all_products"
    /\ attempt < max_retries
    /\ \E products \in Catalogs :
          /\ response' = [kind |-> "ok", products |-> products]
          /\ all_products' = NormalizedProducts(products)
    /\ requests' = requests + 1
    /\ pc' = "create_product_mapping"
    /\ UNCHANGED <<max_retries, attempt, enrichVars, readerVars, parserVars,
                   filterVars, sales_data, analysis>>

\* a pass that ends in Timeout or ConnectionError: attempt += 1, sleep, and
\* the loop test again
RequestRetried ==
    /\ pc = "fetch_all_products"
    /\ attempt < max_retries
    /\ \E kind \in RetriedKinds : response' = [kind |-> kind, products |-> <<>>]
    /\ requests' = requests + 1
    /\ attempt' = attempt + 1
    /\ UNCHANGED <<pc, max_retries, all_products, enrichVars, readerVars,
                   parserVars, filterVars, sales_data, analysis>>

\* a pass that ends in HTTPError or another Exception and is retried
RequestFailsRetried ==
    /\ pc = "fetch_all_products"
    /\ attempt < max_retries
    /\ \E kind \in BreakingKinds : response' = [kind |-> kind, products |-> <<>>]
    /\ requests' = requests + 1
    /\ attempt' = attempt + 1
    /\ UNCHANGED <<pc, max_retries, all_products, enrichVars, readerVars,
                   parserVars, filterVars, sales_data, analysis>>

\* a pass that ends in HTTPError or another Exception: break, and [] is
\* returned
RequestFails ==
    /\ pc = "fetch_all_products"
    /\ attempt < max_retries
    /\ \E kind \in BreakingKinds : response' = [kind |-> kind, products |-> <<>>]
    /\ requests' = requests + 1
    /\ all_products' = <<>>
    /\ pc' = "create_product_mapping"
    /\ UNCHANGED <<max_retries, attempt, enrichVars, readerVars, parserVars,
                   filterVars, sales_data, analysis>>

\* the loop test fails: [] is returned
RetriesExhausted ==
    /\ pc = "fetch_all_products"
    /\ ~(attempt < max_retries)
    /\ all_products' = <<>>
    /\ pc' = "create_product_mapping"
    /\ UNCHANGED <<max_retries, attempt, requests, response, enrichVars,
                   readerVars, parserVars, filterVars, sales_data, analysis>>

\* product_mapping[key] = value
PutItem(dict, key, value) ==
    IF KeyIndex(dict, key) = 0 THEN Append(dict, [key |-> key, value |-> value])
    ELSE [dict EXCEPT ![KeyIndex(dict, key)].value = value]

\* the entry of a product
EntryOf(product) ==
    [title    |-> product.title,
     category |-> product.category,
     brand    |-> product.brand,
     rating   |-> product.rating]

\* {product['id']: {...} for product in products if 'id' in product}
RECURSIVE CreateProductMapping(_)
CreateProductMapping(products) ==
    IF products = <<>> THEN <<>>
    ELSE IF "id" \in DOMAIN Last(products)
    THEN PutItem(CreateProductMapping(Front(products)), Last(products).id,
                 EntryOf(Last(products)))
    ELSE CreateProductMapping(Front(products))

CallCreateProductMapping ==
    /\ pc = "create_product_mapping"
    /\ product_mapping' = CreateProductMapping(all_products)
    /\ pc' = "enrich_sales_data"
    /\ UNCHANGED <<fetchVars, enriched_data, non_enriched_data, total_enriched,
                   total_non_enriched, readerVars, parserVars, filterVars,
                   sales_data, analysis>>

\* str(record.get('ProductID', ''))
ProductIdText(record) ==
    IF "ProductID" \notin DOMAIN record THEN <<>>
    ELSE IF record.ProductID.t = "str" THEN record.ProductID.s
    ELSE IF record.ProductID.t = "int" THEN IntToStr(record.ProductID.n)
    ELSE <<"N", "o", "n", "e">>

\* ''.join(filter(str.isdigit, ...)): every character of the model that
\* str.isdigit accepts is one of 0..9, so that int() of them does not raise
ProductIdDigits(record) == SelectSeq(ProductIdText(record), IsDigit)

\* int(product_id_str) if product_id_str else None
NumericProductId(record) ==
    IF ProductIdDigits(record) = <<>> THEN NoneV
    ELSE IntV(ParseInt(ProductIdDigits(record)).n)

NoEntry == [f \in {} |-> NoneV]

\* product_mapping.get(numeric_product_id, {})
ApiProduct(mapping, key) ==
    IF KeyIndex(mapping, key) = 0 THEN NoEntry
    ELSE mapping[KeyIndex(mapping, key)].value

ApiFields == {"API_Category", "API_Brand", "API_Rating", "API_Match"}

TrueText == StrV(<<"T", "r", "u", "e">>)

FalseText == StrV(<<"F", "a", "l", "s", "e">>)

\* the record with its four API_ fields set
WithApiFields(record, category, brand, rating, match) ==
    [f \in (DOMAIN record) \cup ApiFields |->
        IF f = "API_Category" THEN category
        ELSE IF f = "API_Brand" THEN brand
        ELSE IF f = "API_Rating" THEN rating
        ELSE IF f = "API_Match" THEN match
        ELSE record[f]]

\* `if api_product_id:` and its two branches
EnrichWith(record, api_product_id) ==
    IF DOMAIN api_product_id # {}
    THEN WithApiFields(record, GetOrNone(api_product_id, "category"),
                       GetOrNone(api_product_id, "brand"),
                       GetOrNone(api_product_id, "rating"), TrueText)
    ELSE WithApiFields(record, NoneV, NoneV, NoneV, FalseText)

\* the body of the for loop: the record as it is left
EnrichRecord(record, mapping) ==
    EnrichWith(record, ApiProduct(mapping, NumericProductId(record)))

\* the branch taken appends to enriched_data
IsEnriched(record, mapping) ==
    DOMAIN ApiProduct(mapping, NumericProductId(record)) # {}

\* enriched_data and non_enriched_data after the loop
RECURSIVE EnrichedData(_, _)
EnrichedData(sales, mapping) ==
    IF sales = <<>> THEN <<>>
    ELSE IF IsEnriched(Last(sales), mapping)
    THEN Append(EnrichedData(Front(sales), mapping),
                EnrichRecord(Last(sales), mapping))
    ELSE EnrichedData(Front(sales), mapping)

RECURSIVE NonEnrichedData(_, _)
NonEnrichedData(sales, mapping) ==
    IF sales = <<>> THEN <<>>
    ELSE IF IsEnriched(Last(sales), mapping)
    THEN NonEnrichedData(Front(sales), mapping)
    ELSE Append(NonEnrichedData(Front(sales), mapping),
                EnrichRecord(Last(sales), mapping))

\* the call of enrich_sales_data: the records of sales_data are changed in
\* place, the two lists and their lengths are returned (the file that
\* save_enriched_data writes is read by nothing here)
CallEnrichSalesData ==
    /\ pc = "enrich_sales_data"
    /\ sales_data' =
           [i \in 1..Len(sales_data) |-> EnrichRecord(sales_data[i], product_mapping)]
    /\ enriched_data' = EnrichedData(sales_data, product_mapping)
    /\ non_enriched_data' = NonEnrichedData(sales_data, product_mapping)
    /\ total_enriched' = Len(enriched_data')
    /\ total_non_enriched' = Len(non_enriched_data')
    /\ pc' = "enriched"
    /\ UNCHANGED <<fetchVars, product_mapping, readerVars, parserVars,
                   filterVars, analysis>>

\* nothing of the ApiHandler has run
IdleApi ==
    /\ max_retries = DefaultMaxRetries
    /\ attempt = 0
    /\ requests = 0
    /\ response = NoResponse
    /\ all_products = <<>>
    /\ product_mapping = <<>>
    /\ enriched_data = <<>>
    /\ non_enriched_data = <<>>
    /\ total_enriched = 0
    /\ total_non_enriched = 0

-----------------------------------------------------------------------------
(* parse_transactions applied to a list of lines *)

NoFile == [exists |-> FALSE, readable |-> FALSE, chunks |-> <<>>]

NoSummary ==
    [error |-> FALSE, total_input |-> 0, invalid |-> 0, filtered_by_region |-> 0,
     filtered_by_amount |-> 0, final_count |-> 0]

NoResult == [txns |-> <<>>, invalid_count |-> 0, summary |-> NoSummary]

IdleReader ==
    /\ file = NoFile
    /\ sales_data_without_header = <<>>
    /\ encoding_used = "None"

ParserStart(lines) ==
    /\ raw_lines = lines
    /\ idx = 0
    /\ parsed_transactions = <<>>
    /\ total_records_parsed = 0
    /\ invalid_records_removed = 0
    /\ valid_records_after_cleaning = 0
    /\ dates_list = <<>>
    /\ date_range = <<>>

IdleFilter ==
    /\ transactions = <<>>
    /\ region = NoneV
    /\ min_amount = NoneV
    /\ max_amount = NoneV
    /\ filter_result = NoResult

InitParser ==
    /\ pc = "parse"
    /\ \E lines \in SeqsUpTo(ParserLines, MaxLines) : ParserStart(lines)
    /\ IdleReader
    /\ IdleFilter
    /\ sales_data = <<>>
    /\ analysis = NoAnalysis
    /\ IdleApi

NextParser == ParseStep \/ ParseReturn

SpecParser == InitParser /\ [][NextParser]_vars

-----------------------------------------------------------------------------
(* Properties of parse_transactions (under SpecParser) *)

\* the line the next ParseStep consumes
AtLine == pc = "parse" /\ idx < Len(raw_lines)

NextLine == raw_lines[idx + 1]

\* the number of '|' in a string
NumSep(str) == Cardinality({i \in 1..Len(str) : str[i] = "|"})

\* the trimmed line has exactly eight '|'-separated fields
EightFields(line) == NumSep(Strip(line)) = RequiredNumFields - 1

FieldOf(line, i) == Strip(Split(Strip(line), "|")[i])

\* the step emits no transaction and counts the line as invalid
StepRejects ==
    /\ parsed_transactions' = parsed_transactions
    /\ valid_records_after_cleaning' = valid_records_after_cleaning
    /\ invalid_records_removed' = invalid_records_removed + 1

\* the step emits exactly one transaction and counts it as valid
StepEmits ==
    /\ Len(parsed_transactions') = Len(parsed_transactions) + 1
    /\ SubSeq(parsed_transactions', 1, Len(parsed_transactions)) = parsed_transactions
    /\ valid_records_after_cleaning' = valid_records_after_cleaning + 1
    /\ invalid_records_removed' = invalid_records_removed

\* C7: a line that does not split on '|' into exactly 8 fields never yields a
\* transaction: the output is left as it was, and a non-blank such line adds
\* one to the invalid-records counter.
C7_WrongFieldCountNeverEmitted ==
    [][(AtLine /\ ~EightFields(NextLine))
         => /\ parsed_transactions' = parsed_transactions
            /\ valid_records_after_cleaning' = valid_records_after_cleaning
            /\ ~IsEmptyLine(NextLine) => StepRejects]_vars

\* C7 witness: a non-blank line of 7 or 9 fields has been consumed and counted
C7_Witness ==
    /\ idx > 0
    /\ ~IsEmptyLine(raw_lines[idx])
    /\ NumSep(Strip(raw_lines[idx])) \in {RequiredNumFields - 2, RequiredNumFields}
    /\ invalid_records_removed > 0
    /\ parsed_transactions = <<>>

\* the line passes every check other than those on Quantity and Price
PassesOtherChecks(line) ==
    /\ ~IsEmptyLine(line)
    /\ EightFields(line)
    /\ ParseDate(FieldOf(line, 2)).ok
    /\ StartsWith(FieldOf(line, 1), <<"T">>)
    /\ FieldOf(line, 7) # <<>>
    /\ FieldOf(line, 8) # <<>>

QuantityOf(line) == ParseInt(CleanNumber(FieldOf(line, 5)))

PriceOf(line) == ParseFloat(CleanNumber(FieldOf(line, 6)))

\* Quantity or Price, commas removed, fails to parse as a number or is <= 0
NumberUnparsedOrNotPositive(line) ==
    \/ ~QuantityOf(line).ok
    \/ QuantityOf(line).n <= 0
    \/ ~PriceOf(line).ok
    \/ PriceOf(line).fin /\ PriceOf(line).u <= 0

\* C8: a line that passes the other checks is rejected, adding one to the
\* invalid-records counter, exactly when its Quantity or Price fails to parse
\* or is <= 0; with both parsed and > 0 it is emitted.
C8_RejectedIffNumberBad ==
    [][(AtLine /\ PassesOtherChecks(NextLine))
         => IF NumberUnparsedOrNotPositive(NextLine) THEN StepRejects
            ELSE StepEmits]_vars

\* Date is four digits, '-', two digits, '-', two digits
IsCanonicalDate(str) ==
    /\ Len(str) = 10
    /\ str[5] = "-"
    /\ str[8] = "-"
    /\ \A i \in {1, 2, 3, 4, 6, 7, 9, 10} : IsDigit(str[i])

\* a valid 8-field line: positive Quantity and Price, a parseable date
ValidLine(line) ==
    /\ PassesOtherChecks(line)
    /\ QuantityOf(line).ok /\ QuantityOf(line).n > 0
    /\ PriceOf(line).ok /\ PriceOf(line).fin /\ PriceOf(line).u > 0

\* C6: every valid 8-field line with positive Quantity and Price and a
\* parseable date yields exactly one transaction, whose Date is in YYYY-MM-DD
\* form and whose ProductName has no comma and no run of spaces.
C6_ValidLineYieldsOneTransaction ==
    [][(AtLine /\ ValidLine(NextLine))
         => /\ StepEmits
            /\ LET txn == parsed_transactions'[Len(parsed_transactions')] IN
               /\ IsCanonicalDate(txn.Date.s)
               /\ ~HasDoubleSpace(txn.ProductName.s)
               /\ \A i \in 1..Len(txn.ProductName.s) : txn.ProductName.s[i] # ","]_vars

\* a line that is not empty, splits into eight fields, and whose Date parses
HasParseableDate(line) ==
    /\ ~IsEmptyLine(line)
    /\ EightFields(line)
    /\ ParseDate(FieldOf(line, 2)).ok

DateOfLine(line) == ParseDate(FieldOf(line, 2))

\* the lines after which the Parser emitted a transaction
Accepted(lines) == {i \in 1..Len(lines) : ParseLine(lines[i]).kind = "valid"}

\* C20: the date range parse_transactions reports is "Month Year to Month
\* Year" of the least and the greatest date among the lines that are not
\* empty, have eight fields and a Date that parses, whether or not the line is
\* rejected afterwards; it is "N/A" exactly when there is no such line.
C20_DateRangeSpansEveryParsedDate ==
    pc = "parsed" =>
        LET dated == {i \in 1..Len(raw_lines) : HasParseableDate(raw_lines[i])} IN
        /\ date_range = NotAvailable <=> dated = {}
        /\ dated # {} =>
               \E lo, hi \in dated :
                   /\ \A i \in dated :
                          /\ DateOrd(DateOfLine(raw_lines[lo]))
                                 <= DateOrd(DateOfLine(raw_lines[i]))
                          /\ DateOrd(DateOfLine(raw_lines[i]))
                                 <= DateOrd(DateOfLine(raw_lines[hi]))
                   /\ date_range =
                          MonthYear(DateOfLine(raw_lines[lo]))
                          \o <<" ", "t", "o", " ">>
                          \o MonthYear(DateOfLine(raw_lines[hi]))

\* the range starts at the date of a line rejected for its Quantity, a month
\* before that of the only accepted line
C20_Witness ==
    /\ pc = "parsed"
    /\ Accepted(raw_lines) # {}
    /\ \E i \in 1..Len(raw_lines) :
           /\ HasParseableDate(raw_lines[i])
           /\ i \notin Accepted(raw_lines)
           /\ \A j \in Accepted(raw_lines) :
                  DateOrd(DateOfLine(raw_lines[i])) < DateOrd(DateOfLine(raw_lines[j]))
           /\ date_range =
                  MonthYear(DateOfLine(raw_lines[i])) \o <<" ", "t", "o", " ">>
                  \o MonthYear(DateOfLine(raw_lines[CHOOSE j \in Accepted(raw_lines) : TRUE]))
           /\ MonthYear(DateOfLine(raw_lines[i]))
                  # MonthYear(DateOfLine(raw_lines[CHOOSE j \in Accepted(raw_lines) : TRUE]))

\* what parse_transactions returns for the lines alone: the record of every
\* accepted line, in the order of the lines
RECURSIVE TransactionsOf(_)
TransactionsOf(lines) ==
    IF lines = <<>> THEN <<>>
    ELSE IF ParseLine(Head(lines)).kind = "valid"
         THEN <<ParseLine(Head(lines)).txn>> \o TransactionsOf(Tail(lines))
         ELSE TransactionsOf(Tail(lines))

\* C21: the lines are treated independently: wherever the lines consumed so
\* far are cut into A followed by B, the transactions produced are those of A
\* alone followed by those of B alone; every line is consumed, whatever
\* happened to the lines before it.
C21_LinesAreIndependent ==
    /\ \A k \in 0..idx :
           parsed_transactions =
               TransactionsOf(SubSeq(raw_lines, 1, k))
               \o TransactionsOf(SubSeq(raw_lines, k + 1, idx))
    /\ pc = "parsed" => idx = Len(raw_lines)

\* C21 witness: a rejected line followed by an accepted one; the batch ends
\* with the transaction of the second line
C21_Witness ==
    /\ pc = "parsed"
    /\ Len(raw_lines) = 2
    /\ ParseLine(raw_lines[1]).kind = "invalid"
    /\ ParseLine(raw_lines[2]).kind = "valid"
    /\ parsed_transactions = <<ParseLine(raw_lines[2]).txn>>
    /\ invalid_records_removed = 1

\* the lines that are not empty after trimming
NonBlank(lines) == {i \in 1..Len(lines) : Strip(lines[i]) # <<>>}

\* C27: at the end of parse_transactions total_records_parsed is
\* invalid_records_removed + valid_records_after_cleaning,
\* valid_records_after_cleaning is the length of the returned list, and the
\* lines that are empty after trimming are in none of the three counters:
\* total_records_parsed is the number of the other lines.
C27_CountersAddUp ==
    pc = "parsed" =>
        /\ total_records_parsed
               = invalid_records_removed + valid_records_after_cleaning
        /\ valid_records_after_cleaning = Len(parsed_transactions)
        /\ total_records_parsed = Cardinality(NonBlank(raw_lines))

\* C27 witness: a blank line and a rejected line; one record is counted
C27_Witness ==
    /\ pc = "parsed"
    /\ Len(raw_lines) = 2
    /\ Cardinality(NonBlank(raw_lines)) = 1
    /\ total_records_parsed = 1
    /\ invalid_records_removed = 1
    /\ valid_records_after_cleaning = 0

\* the CustomerID starts with C and the ProductID with P
CustomerAndProductPrefixed(txn) ==
    /\ StartsWith(txn.CustomerID.s, <<"C">>)
    /\ StartsWith(txn.ProductID.s, <<"P">>)

\* C28: every transaction parse_transactions emits has a Quantity that is an
\* integer > 0 and a Price that is a float > 0, as Stage A of
\* validate_and_filter requires; it passes Stage A when its CustomerID starts
\* with C and its ProductID with P, and is rejected by Stage A otherwise.
C28_EmittedPassStageAIffPrefixed ==
    \A i \in 1..Len(parsed_transactions) :
        /\ PositiveInt(parsed_transactions[i].Quantity)
        /\ PositiveFloat(parsed_transactions[i].Price)
        /\ StageAValid(parsed_transactions[i])
               <=> CustomerAndProductPrefixed(parsed_transactions[i])

\* C28 witness: the Parser emitted a transaction that passes Stage A and one,
\* with an empty ProductID or a CustomerID without C, that Stage A rejects
C28_Witness ==
    /\ pc = "parsed"
    /\ Len(parsed_transactions) = 2
    /\ StageAValid(parsed_transactions[1])
    /\ ~StageAValid(parsed_transactions[2])
    /\ ~CustomerAndProductPrefixed(parsed_transactions[2])

-----------------------------------------------------------------------------
(* validate_and_filter applied to a list of transactions *)

\* North, 2 x 5.5 = 11.0
TxnNorth11 == ParseLine(GoodLine).txn

\* south, 10 x 10.25 = 102.5
TxnSouth102 == ParseLine(MessyLine).txn

\* North, 1 x 5.5 = 5.5
TxnNorth5 == ParseLine(JoinFields(With2(1, TxnT3, 5, Qty1))).txn

\* records the Parser emits and Stage A rejects
TxnCustX9 == ParseLine(JoinFields(With(7, CustX9))).txn

TxnNoProduct == ParseLine(JoinFields(With(3, Empty))).txn

\* records no Parser emitted
TxnBadId == [TxnNorth11 EXCEPT !.TransactionID = StrV(TxnX1)]

TxnIdNone == [TxnNorth11 EXCEPT !.TransactionID = NoneV]

TxnNoRegionField ==
    [f \in (DOMAIN TxnNorth11) \ {"Region"} |-> TxnNorth11[f]]

TxnRegionNone == [TxnNorth5 EXCEPT !.Region = NoneV]

FilterTxns ==
    { TxnNorth11, TxnSouth102, TxnNorth5, TxnCustX9, TxnNoProduct, TxnBadId,
      TxnIdNone, TxnNoRegionField, TxnRegionNone }

EmptyStr == StrV(<<>>)

Eleven == FloatV(11 * Scale)

FilterRegions == { NoneV, EmptyStr, StrV(<<"S", "o", "u", "t", "h">>) }

FilterBounds == { NoneV, EmptyStr, Eleven }

InitFilter ==
    /\ pc = "filter"
    /\ transactions \in SeqsUpTo(FilterTxns, MaxTxns)
    /\ region \in FilterRegions
    /\ min_amount \in FilterBounds
    /\ max_amount \in FilterBounds
    /\ filter_result = NoResult
    /\ IdleReader
    /\ ParserStart(<<>>)
    /\ sales_data = <<>>
    /\ analysis = NoAnalysis
    /\ IdleApi

NextFilter == CallValidateAndFilter

SpecFilter == InitFilter /\ [][NextFilter]_vars

-----------------------------------------------------------------------------
(* Properties of validate_and_filter (under SpecFilter) *)

Returned == pc = "filtered"

\* the field is present, a string, and starts with the prefix
FieldStartsWith(txn, f, prefix) ==
    f \in DOMAIN txn /\ txn[f].t = "str" /\ StartsWith(txn[f].s, prefix)

\* the ID prefixes Stage A asks for
PrefixesOK(txn) ==
    /\ FieldStartsWith(txn, "TransactionID", <<"T">>)
    /\ FieldStartsWith(txn, "CustomerID", <<"C">>)
    /\ FieldStartsWith(txn, "ProductID", <<"P">>)

\* the Stage A rules: all eight fields, Quantity a positive integer, Price a
\* positive float, the three ID prefixes
PassesStageA(txn) ==
    /\ \A i \in 1..Len(RequiredFields) : RequiredFields[i] \in DOMAIN txn
    /\ txn.Quantity.t = "int" /\ txn.Quantity.n > 0
    /\ txn.Price.t = "float" /\ txn.Price.n > 0
    /\ PrefixesOK(txn)

\* the Stage-A-valid transactions of a list, in input order
StageAValidOf(txns) == SelectSeq(txns, LAMBDA t : PassesStageA(t))

AllAbsent == region = NoneV /\ min_amount = NoneV /\ max_amount = NoneV

\* C2: with region, min_amount and max_amount all None the result is exactly
\* the Stage-A-valid transactions in input order, filtered_by_region and
\* filtered_by_amount are 0 and final_count is their number.
C2_NoFiltersPassThrough ==
    (Returned /\ AllAbsent)
      => /\ filter_result.txns = StageAValidOf(transactions)
         /\ ~filter_result.summary.error
         /\ filter_result.summary.filtered_by_region = 0
         /\ filter_result.summary.filtered_by_amount = 0
         /\ filter_result.summary.final_count = Len(StageAValidOf(transactions))

\* C2 witness: an all-None call on a list with valid and invalid records
C2_Witness ==
    /\ Returned /\ AllAbsent
    /\ Len(filter_result.txns) = 2
    /\ Len(transactions) = 3

\* the function's own defaults: region = "", min_amount = "", max_amount = ""
DefaultArguments ==
    region = EmptyStr /\ min_amount = EmptyStr /\ max_amount = EmptyStr

\* C3: a call that leaves region, min_amount and max_amount at their defaults
\* takes the pass-through branch: every Stage-A-valid transaction is returned
\* and final_count is their number.
C3_DefaultsPassThrough ==
    (Returned /\ DefaultArguments)
      => /\ filter_result.txns = StageAValidOf(transactions)
         /\ ~filter_result.summary.error
         /\ filter_result.summary.final_count = Len(StageAValidOf(transactions))

\* a bound is numeric or absent
NumberOrNone(v) == v.t \in {"none", "float"}

\* every Stage-A-valid input record carries a Region string
RegionsAreStrings ==
    \A i \in 1..Len(transactions) :
        PassesStageA(transactions[i]) => transactions[i].Region.t = "str"

\* filtering is requested: a region, or a bound, is given
FilteringRequested ==
    /\ NumberOrNone(min_amount) /\ NumberOrNone(max_amount)
    /\ ~((region = NoneV \/ region = EmptyStr)
          /\ min_amount = NoneV /\ max_amount = NoneV)

\* the record matches the region stage: the given region, case-insensitively,
\* or any record when no region is given
MatchesRegionStage(txn) ==
    IF region = NoneV \/ region = EmptyStr THEN TRUE
    ELSE Lower(txn.Region.s) = Lower(region.s)

Revenue(txn) == txn.Quantity.n * txn.Price.n

\* the record satisfies the amount filter: inclusive at both ends
SatisfiesAmount(txn) ==
    /\ min_amount = NoneV \/ Revenue(txn) >= min_amount.n
    /\ max_amount = NoneV \/ Revenue(txn) <= max_amount.n

\* C4: when filtering is requested the result is exactly the Stage-A-valid
\* transactions that neither match the region stage nor satisfy the amount
\* filter, in input order, and final_count is the length of the result.
C4_ResultIsComplementOfBothStages ==
    (Returned /\ FilteringRequested /\ RegionsAreStrings)
      => /\ ~filter_result.summary.error
         /\ filter_result.txns =
               SelectSeq(transactions,
                         LAMBDA t : /\ PassesStageA(t)
                                    /\ ~MatchesRegionStage(t)
                                    /\ ~SatisfiesAmount(t))
         /\ filter_result.summary.final_count = Len(filter_result.txns)

\* C4 witness: one record matched the region, one the amount, one is left
C4_Witness ==
    /\ Returned /\ FilteringRequested /\ RegionsAreStrings
    /\ filter_result.summary.filtered_by_region = 1
    /\ filter_result.summary.filtered_by_amount = 1
    /\ filter_result.txns = <<TxnNorth5>>

\* the input list without the records that fail an ID prefix
WithoutBadPrefixes == SelectSeq(transactions, LAMBDA t : PrefixesOK(t))

NumBadPrefixes ==
    Cardinality({i \in 1..Len(transactions) : ~PrefixesOK(transactions[i])})

\* C5: a record that fails an ID prefix is not in the result and in no Stage B
\* count (result and summary are those of the list without such records),
\* and each adds exactly one to invalidCount.
C5_BadPrefixDroppedAndCounted ==
    Returned
      => LET clean == ValidateAndFilter(WithoutBadPrefixes, region,
                                        min_amount, max_amount)
         IN  /\ \A i \in 1..Len(filter_result.txns) :
                    PrefixesOK(filter_result.txns[i])
             /\ filter_result.txns = clean.txns
             /\ filter_result.summary.error = clean.summary.error
             /\ filter_result.summary.filtered_by_region
                    = clean.summary.filtered_by_region
             /\ filter_result.summary.filtered_by_amount
                    = clean.summary.filtered_by_amount
             /\ filter_result.summary.final_count = clean.summary.final_count
             /\ filter_result.invalid_count = clean.invalid_count + NumBadPrefixes

\* C5 witness: Parser-accepted records with a bad CustomerID and a bad
\* ProductID were dropped and counted, next to a record that was kept
C5_Witness ==
    /\ Returned
    /\ \E i, j, k \in 1..Len(transactions) :
          /\ transactions[i] = TxnCustX9
          /\ transactions[j] = TxnNoProduct
          /\ transactions[k] = TxnNorth11
    /\ filter_result.invalid_count = 2
    /\ filter_result.txns = <<TxnNorth11>>

\* Stage A raises on the record: it has the eight fields and good numbers,
\* and .startswith is reached on an ID that is no string
RaisesInStageA(txn) ==
    /\ \A i \in 1..Len(RequiredFields) : RequiredFields[i] \in DOMAIN txn
    /\ txn.Quantity.t = "int" /\ txn.Quantity.n > 0
    /\ txn.Price.t = "float" /\ txn.Price.n > 0
    /\ \/ txn.TransactionID.t # "str"
       \/ /\ FieldStartsWith(txn, "TransactionID", <<"T">>)
          /\ txn.CustomerID.t # "str"
       \/ /\ FieldStartsWith(txn, "TransactionID", <<"T">>)
          /\ FieldStartsWith(txn, "CustomerID", <<"C">>)
          /\ txn.ProductID.t # "str"

\* the filters are applied: the call does not take the pass-through branch
FiltersApplied ==
    ~((region = NoneV \/ region = EmptyStr)
       /\ min_amount = NoneV /\ max_amount = NoneV)

\* the region stage calls .lower() on a Region that is no string
RegionStageRaises ==
    /\ region.t = "str" /\ region.s # <<>>
    /\ \E i \in 1..Len(transactions) :
          PassesStageA(transactions[i]) /\ transactions[i].Region.t # "str"

\* the amount stage compares the record's amount with a bound that is no
\* number: the lower bound first, the upper one when the lower is absent or met
ComparesWithNonNumber(txn) ==
    \/ min_amount.t = "str"
    \/ /\ max_amount.t = "str"
       /\ min_amount = NoneV \/ Revenue(txn) >= min_amount.n

\* the amount stage raises: a Stage-A-valid record that does not match the
\* region given (with no region given the stage sees no record) is compared
\* with a bound that is no number
AmountStageRaises ==
    \E i \in 1..Len(transactions) :
        /\ PassesStageA(transactions[i])
        /\ transactions[i].Region.t = "str"
        /\ region.t = "str" /\ region.s # <<>>
        /\ ~MatchesRegionStage(transactions[i])
        /\ ComparesWithNonNumber(transactions[i])

RaisesOutsideStageA ==
    FiltersApplied /\ (RegionStageRaises \/ AmountStageRaises)

\* C13: validate_and_filter returns for every input.  An exception while
\* one transaction is handled in Stage A only counts that transaction as
\* invalid; an exception anywhere else yields an empty transaction list and
\* a summary with an 'error' entry, and nothing else does.
C13_ExceptionsAreContained ==
    Returned
      => /\ filter_result.invalid_count
               = Len(transactions) - Len(StageAValidOf(transactions))
         /\ \A i \in 1..Len(filter_result.txns) :
                ~RaisesInStageA(filter_result.txns[i])
         /\ RaisesOutsideStageA
               => filter_result.txns = <<>> /\ filter_result.summary.error
         /\ ~RaisesOutsideStageA
               => /\ ~filter_result.summary.error
                  /\ filter_result.summary.total_input = Len(transactions)
                  /\ filter_result.summary.invalid = filter_result.invalid_count

\* C13 witness: one record raised in Stage A and was counted, another made
\* the region stage raise, and the error summary came back
C13_Witness ==
    /\ Returned
    /\ \E i, j \in 1..Len(transactions) :
          /\ RaisesInStageA(transactions[i])
          /\ PassesStageA(transactions[j]) /\ transactions[j].Region.t # "str"
    /\ RegionStageRaises
    /\ filter_result.invalid_count = 1
    /\ filter_result.txns = <<>>
    /\ filter_result.summary.error

\* no region is given, and a bound is: "" and None are no region, and any
\* value other than None is a bound
BoundWithoutRegion ==
    /\ region = NoneV \/ region = EmptyStr
    /\ min_amount # NoneV \/ max_amount # NoneV

\* C24: when filtering is requested with an amount bound and no region,
\* every Stage-A-valid transaction counts as filtered by region, none reaches
\* the amount stage, filtered_by_amount is 0, and the result is the empty list
\* with final_count 0, whatever the bounds are.
C24_BoundWithoutRegionReturnsNothing ==
    (Returned /\ BoundWithoutRegion)
      => /\ ~filter_result.summary.error
         /\ filter_result.summary.filtered_by_region
                = Len(StageAValidOf(transactions))
         /\ filter_result.summary.filtered_by_amount = 0
         /\ filter_result.summary.final_count = 0
         /\ filter_result.txns = <<>>

\* C24 witness: a valid record of amount 5.5 and a lower bound of 11, which
\* the record does not meet, and no region: nothing is returned
C24_Witness ==
    /\ Returned /\ BoundWithoutRegion
    /\ min_amount = Eleven /\ max_amount = NoneV
    /\ \E i \in 1..Len(transactions) : transactions[i] = TxnNorth5
    /\ filter_result.summary.filtered_by_region = Len(transactions)
    /\ filter_result.txns = <<>>

\* the records that reach the amount stage and match it: Stage-A-valid, not
\* matching the region, Quantity x Price within the bounds given
AmountMatches ==
    {i \in 1..Len(transactions) :
        /\ PassesStageA(transactions[i])
        /\ ~MatchesRegionStage(transactions[i])
        /\ SatisfiesAmount(transactions[i])}

C26_SummaryAccountsForEveryInput ==
    (Returned /\ ~filter_result.summary.error)
      => /\ filter_result.summary.total_input = Len(transactions)
         /\ filter_result.summary.total_input
                = filter_result.summary.invalid
                  + filter_result.summary.filtered_by_region
                  + filter_result.summary.filtered_by_amount
                  + filter_result.summary.final_count
         /\ filter_result.invalid_count = filter_result.summary.invalid
         /\ filter_result.summary.final_count = Len(filter_result.txns)
         /\ ~FiltersApplied
               => /\ filter_result.summary.filtered_by_region = 0
                  /\ filter_result.summary.filtered_by_amount = 0

\* C26 witness: a record Stage A rejects occurs twice, next to a record
\* that matched the region, with the filters applied
C26_Witness ==
    /\ Returned /\ FiltersApplied
    /\ ~filter_result.summary.error
    /\ Len(transactions) = 3
    /\ \E i, j \in 1..Len(transactions) :
          i # j /\ transactions[i] = transactions[j]
    /\ filter_result.summary.invalid = 2
    /\ filter_result.summary.filtered_by_region = 1

-----------------------------------------------------------------------------
(* The Aggregators applied to a list of records *)

DateDec2 == <<"2", "0", "2", "4", "-", "1", "2", "-", "0", "2">>

NameInk == <<"I", "n", "k">>

Qty3 == <<"3">>

PricePoint1 == <<"0", ".", "1">>

PricePoint2 == <<"0", ".", "2">>

PricePoint3 == <<"0", ".", "3">>

RegEast == <<"E", "a", "s", "t">>

\* records the Parser emits.  2 x 0.1 on the first day, in the North
SalePen == 
    ParseLine(JoinFields(<<TxnT1, DateDec1, ProdP1, NamePen, Qty2, PricePoint1,
                           CustC1, RegNorth>>)).txn

\* 3 x 0.2, which is 0.6000000000000001, on the second day, in the south
SaleInk ==
    ParseLine(JoinFields(<<TxnT2, DateDec2, ProdP2, NameInk, Qty3, PricePoint2,
                           CustC2, RegSouth>>)).txn

\* 2 x 0.3 on the first day, in the East, another customer
SalePenC2 ==
    ParseLine(JoinFields(<<TxnT3, DateDec1, ProdP1, NamePen, Qty2, PricePoint3,
                           CustC2, RegEast>>)).txn

\* 1 x 0.2 on an earlier day: the amount of SalePen, a third product
SaleMessy ==
    ParseLine(JoinFields(<<TxnT2, DateJan5, ProdP1, NameMessy, Qty1, PricePoint2,
                           CustC1, RegNorth>>)).txn

\* records no Parser emitted: a Quantity that is no number, a Price of None
SaleBadQuantity == [SalePen EXCEPT !.Quantity = StrV(<<"x">>)]

SaleNoPrice == [SaleInk EXCEPT !.Price = NoneV]

ParsedSales == {SalePen, SaleInk, SalePenC2, SaleMessy}

SalesRecords == ParsedSales \cup {SaleBadQuantity, SaleNoPrice}

InitAggregators ==
    /\ pc = "calculate_total_revenue"
    /\ sales_data \in SeqsUpTo(SalesRecords, MaxSales)
    /\ analysis = NoAnalysis
    /\ IdleApi
    /\ IdleReader
    /\ ParserStart(<<>>)
    /\ IdleFilter

NextAggregators ==
    \/ CallCalculateTotalRevenue
    \/ CallRegionWiseSales
    \/ CallTopSellingProducts
    \/ CallCustomerAnalysis
    \/ CallDailySalesTrend
    \/ CallFindPeakSalesDay
    \/ CallLowPerformingProducts

SpecAggregators == InitAggregators /\ [][NextAggregators]_vars

-----------------------------------------------------------------------------
(* Properties of the Aggregators (under SpecAggregators) *)

\* the records of one date, and what they sum to: Quantity x Price added up
\* in the order of the list
OnDate(sales, date) == SelectSeq(sales, LAMBDA record : record.Date = date)

RevenueOn(sales, date) == CalculateTotalRevenue(OnDate(sales, date))

\* the place where a date first appears
FirstOn(sales, date) ==
    CHOOSE i \in 1..Len(sales) :
        sales[i].Date = date /\ \A j \in 1..(i - 1) : sales[j].Date # date

PeakReturned == pc = "low_performing_products"

\* C14: for a list that is not empty find_peak_sales_day returns a date of the
\* list whose summed Quantity x Price no other date exceeds, and which every
\* date that appears earlier in the list falls short of; with it that sum,
\* rounded to two decimals, and the number of records of the date.
C14_PeakIsFirstMaximalDate ==
    (PeakReturned /\ sales_data # <<>>) =>
        LET peak_day == analysis.peak_data.peak_day IN
        /\ ~analysis.peak_data.raised
        /\ \E i \in 1..Len(sales_data) : sales_data[i].Date = peak_day
        /\ \A i \in 1..Len(sales_data) :
               ~FloatLess(RevenueOn(sales_data, peak_day),
                          RevenueOn(sales_data, sales_data[i].Date))
        /\ \A i \in 1..(FirstOn(sales_data, peak_day) - 1) :
               FloatLess(RevenueOn(sales_data, sales_data[i].Date),
                         RevenueOn(sales_data, peak_day))
        /\ analysis.peak_data.revenue = Round2(RevenueOn(sales_data, peak_day))
        /\ analysis.peak_data.transaction_count = Len(OnDate(sales_data, peak_day))

\* two dates tie for the greatest sum, and the one returned, which stands
\* first in the list, is the later day
C14_Witness ==
    /\ PeakReturned
    /\ sales_data # <<>>
    /\ \E i \in 1..Len(sales_data) :
           /\ sales_data[i].Date # analysis.peak_data.peak_day
           /\ StrLess(sales_data[i].Date.s, analysis.peak_data.peak_day.s)
           /\ RevenueOn(sales_data, sales_data[i].Date)
                  = RevenueOn(sales_data, analysis.peak_data.peak_day)
           /\ FloatLess(FloatZero, RevenueOn(sales_data, sales_data[i].Date))

RegionsReturned == pc = "top_selling_products"

\* the percentages of the regions added up, in hundredths of a percent
RECURSIVE SumHundredths(_)
SumHundredths(region_sales) ==
    IF region_sales = <<>> THEN 0
    ELSE Hundredths(Head(region_sales).percentage)
         + SumHundredths(Tail(region_sales))

Distance(a, b) == IF a < b THEN b - a ELSE a - b

\* C17: when calculate_total_revenue of the list is above 0, the percentages
\* region_wise_sales reports are numbers of two decimals that add up to 100
\* give or take 0.005 for every region; when it is 0 every percentage is 0.
C17_PercentagesSumToHundred ==
    RegionsReturned =>
        IF FloatLess(FloatZero, CalculateTotalRevenue(sales_data))
        THEN /\ \A i \in 1..Len(analysis.region_sales) :
                    Round2(analysis.region_sales[i].percentage)
                        = analysis.region_sales[i].percentage
             /\ 2 * Distance(SumHundredths(analysis.region_sales), 100 * 100)
                    <= Len(analysis.region_sales)
        ELSE \A i \in 1..Len(analysis.region_sales) :
                 analysis.region_sales[i].percentage = FloatZero

\* three regions whose percentages, each rounded, do not add up to 100
C17_Witness ==
    /\ RegionsReturned
    /\ FloatLess(FloatZero, CalculateTotalRevenue(sales_data))
    /\ Len(analysis.region_sales) = 3
    /\ SumHundredths(analysis.region_sales) # 100 * 100

TopReturned == pc = "customer_analysis"

ProductNames(sales) == {sales[i].ProductName : i \in 1..Len(sales)}

\* the Quantity the records of a product add up to; a record whose
\* Quantity x Price cannot be computed counts 0
RECURSIVE QuantitySold(_, _)
QuantitySold(sales, product) ==
    IF sales = <<>> THEN 0
    ELSE QuantitySold(Tail(sales), product)
         + (IF Head(sales).ProductName = product
            THEN Product(Head(sales).Quantity, Head(sales).Price).quantity
            ELSE 0)

\* C16: top_selling_products(sales_data, n) returns at most n entries (as many
\* as there are product names, when these are fewer), each for another
\* ProductName of the list with the Quantity its records add up to, in
\* descending order of that total; no product left out has a greater total
\* than a product returned.
C16_TopProductsBoundedAndOrdered ==
    TopReturned =>
        LET top == analysis.top_products
            returned == {top[i].product : i \in 1..Len(top)}
            names == ProductNames(sales_data)
        IN  /\ Len(top) <= analysis.n
            /\ Len(top) = IF Cardinality(names) < analysis.n
                          THEN Cardinality(names) ELSE analysis.n
            /\ returned \subseteq names
            /\ Cardinality(returned) = Len(top)
            /\ \A i \in 1..Len(top) :
                   top[i].total_quantity = QuantitySold(sales_data, top[i].product)
            /\ \A i, j \in 1..Len(top) :
                   i < j => top[i].total_quantity >= top[j].total_quantity
            /\ \A product \in names \ returned : \A i \in 1..Len(top) :
                   QuantitySold(sales_data, product) <= top[i].total_quantity

\* two products returned, of different totals, and a third one left out
C16_Witness ==
    /\ TopReturned
    /\ analysis.n = 2
    /\ Len(analysis.top_products) = 2
    /\ analysis.top_products[1].total_quantity
           > analysis.top_products[2].total_quantity
    /\ \E product \in ProductNames(sales_data) :
           \A i \in 1..2 : analysis.top_products[i].product # product

ReportsReturned == pc = "find_peak_sales_day"

ParserProduced(sales) == \A i \in 1..Len(sales) : sales[i] \in ParsedSales

\* sum() of a list of floats
RECURSIVE SumFloats(_)
SumFloats(floats) ==
    IF floats = <<>> THEN FloatZero
    ELSE FloatAdd(SumFloats(Front(floats)), Last(floats))

\* the totals of the three reports, each added up in the order of the report
SumOfRegions ==
    SumFloats([i \in 1..Len(analysis.region_sales) |->
                  analysis.region_sales[i].total_sales])

SumOfDays ==
    SumFloats([i \in 1..Len(analysis.daily_sales_trend) |->
                  analysis.daily_sales_trend[i].total_revenue])

SumOfCustomers ==
    SumFloats([i \in 1..Len(analysis.customer_stats) |->
                  analysis.customer_stats[i].total_spent])

TotalReturned == pc = "region_wise_sales"

\* int(Quantity) and float(Price) are both numbers
Numeric(record) == IntOf(record.Quantity).ok /\ FloatOf(record.Price).ok

\* Quantity x Price of a record, 0.0 for one that is not Numeric
RevenueOf(record) ==
    IF Numeric(record)
    THEN FloatMulInt(IntOf(record.Quantity).n, FloatOf(record.Price).f)
    ELSE FloatZero

\* C19: calculate_total_revenue returns the sum, record after record, of
\* Quantity x Price, a record whose Quantity or Price is not a number adding
\* 0; the result is what the call returns for the list without those records.
C19_TotalIsSumOverNumericRecords ==
    TotalReturned =>
        /\ analysis.total_revenue =
               SumFloats([i \in 1..Len(sales_data) |-> RevenueOf(sales_data[i])])
        /\ analysis.total_revenue =
               CalculateTotalRevenue(SelectSeq(sales_data, Numeric))

\* a record that is not Numeric stands between two that are
C19_Witness ==
    /\ TotalReturned
    /\ FloatLess(FloatZero, analysis.total_revenue)
    /\ \E i, j, k \in 1..Len(sales_data) :
           /\ i < j /\ j < k
           /\ Numeric(sales_data[i]) /\ ~Numeric(sales_data[j])
           /\ Numeric(sales_data[k])

LowReturned == pc = "analyzed"

\* the Quantity fields of the records of a product, added up
RECURSIVE QuantityField(_, _)
QuantityField(sales, product) ==
    IF sales = <<>> THEN 0
    ELSE QuantityField(Tail(sales), product)
         + (IF Head(sales).ProductName = product THEN Head(sales).Quantity.n
            ELSE 0)

\* C22: low_performing_products(sales_data, threshold) returns exactly the
\* products whose summed Quantity is strictly below threshold, each once, with
\* that sum, in ascending order of it (a record whose Quantity x Price cannot
\* be computed counts 0; on Parser-produced records the sum is that of the
\* Quantity fields).
C22_LowPerformersAreThoseBelowThreshold ==
    LowReturned =>
        LET low == analysis.low_performing_products IN
        /\ {low[i].product : i \in 1..Len(low)} =
               {product \in ProductNames(sales_data) :
                    QuantitySold(sales_data, product) < analysis.threshold}
        /\ \A i, j \in 1..Len(low) :
               /\ i # j => low[i].product # low[j].product
               /\ i < j => low[i].total_quantity <= low[j].total_quantity
        /\ \A i \in 1..Len(low) :
               /\ low[i].total_quantity = QuantitySold(sales_data, low[i].product)
               /\ ParserProduced(sales_data) =>
                      low[i].total_quantity
                          = QuantityField(sales_data, low[i].product)

\* C22 witness: a product whose total equals the threshold is left out while
\* a product under the threshold is returned
C22_Witness ==
    /\ LowReturned
    /\ ParserProduced(sales_data)
    /\ analysis.low_performing_products # <<>>
    /\ \E product \in ProductNames(sales_data) :
           /\ QuantityField(sales_data, product) = analysis.threshold
           /\ \A i \in 1..Len(analysis.low_performing_products) :
                  analysis.low_performing_products[i].product # product

\* the dates of the list, and the customers of a date
DatesOf(sales) == {sales[i].Date : i \in 1..Len(sales)}

CustomersOn(sales, date) ==
    {sales[i].CustomerID : i \in {k \in 1..Len(sales) : sales[k].Date = date}}

DateOfKey(entry) == DateOrd(ParseDate(entry.key.s))

RECURSIVE SumOfCounts(_)
SumOfCounts(trend) ==
    IF trend = <<>> THEN 0
    ELSE Head(trend).transaction_count + SumOfCounts(Tail(trend))

C15_EmptyListDoesNotRaise ==
    (sales_data = <<>> /\ pc # "find_peak_sales_day") => ~analysis.peak_data.raised

-----------------------------------------------------------------------------
(* read_sales_data applied to a file *)

HeaderLine == HeaderToken \o <<"D", "a", "t", "e">>

BlankLine == <<" ", " ">>

\* n copies of a line
Copies(n, line) == [i \in 1..n |-> line]

\* data lines per chunk: the counts reach both sides of 50 and of 100
ChunkSizes == {1, MinTransactionLines, MinTransactionLines + 1}

\* the encodings a chunk's bytes may fail under (latin-1 decodes any byte)
BadEncodingSets == { {}, {"utf-8"}, {"utf-8", "cp1252"} }

Chunks ==
    { [lines |-> (IF pre THEN <<HeaderLine, BlankLine>> ELSE <<>>)
                 \o Copies(n, <<" ">> \o GoodLine),
       bad   |-> b] :
      n \in ChunkSizes, pre \in BOOLEAN, b \in BadEncodingSets }

Files ==
    {NoFile}
    \cup { [exists |-> TRUE, readable |-> r, chunks |-> c] :
           r \in BOOLEAN, c \in SeqsUpTo(Chunks, MaxChunks) }

IdleParser == ParserStart(<<>>)

InitReader ==
    /\ pc = "read"
    /\ file \in Files
    /\ sales_data_without_header = <<>>
    /\ encoding_used = "None"
    /\ IdleParser
    /\ IdleFilter
    /\ sales_data = <<>>
    /\ analysis = NoAnalysis
    /\ IdleApi

NextReader == CallReadSalesData

SpecReader == InitReader /\ [][NextReader]_vars

-----------------------------------------------------------------------------
(* Properties of read_sales_data (under SpecReader) *)

ReadReturned == pc = "read_done"

RECURSIVE AllLines(_)
AllLines(chunks) ==
    IF chunks = <<>> THEN <<>> ELSE Head(chunks).lines \o AllLines(Tail(chunks))

\* the number of non-blank, non-header lines of the file
DataLineCount ==
    Cardinality({i \in 1..Len(AllLines(file.chunks)) :
                   LET line == LStrip(AllLines(file.chunks)[i]) IN
                   line # <<>> /\ ~StartsWith(line, HeaderToken)})

\* C9: the returned list is empty whenever the file has fewer than 50 or more
\* than 100 non-blank, non-header lines; it is always empty or 50 to 100
\* lines long.
C9_OutsideWindowReturnsEmpty ==
    ReadReturned
      => /\ (DataLineCount < MinTransactionLines
               \/ DataLineCount > MaxTransactionLines)
              => sales_data_without_header = <<>>
         /\ \/ sales_data_without_header = <<>>
            \/ /\ Len(sales_data_without_header) >= MinTransactionLines
               /\ Len(sales_data_without_header) <= MaxTransactionLines

\* the file decodes under the encoding: no chunk fails
Decodes(encoding) ==
    \A i \in 1..Len(file.chunks) : encoding \notin file.chunks[i].bad

\* the first encoding of the list under which the file decodes
FirstGoodEncoding ==
    EncodingsToTry[CHOOSE k \in 1..Len(EncodingsToTry) :
                     /\ Decodes(EncodingsToTry[k])
                     /\ \A j \in 1..(k - 1) : ~Decodes(EncodingsToTry[j])]

\* C10: the encodings are tried in order and the encoding returned is the
\* first under which the file opens and decodes; a failure under an earlier
\* encoding moves on to the next.
C10_FirstDecodingEncodingUsed ==
    (ReadReturned /\ file.exists /\ file.readable)
      => encoding_used = FirstGoodEncoding

\* an exception is raised while the file is read: open() fails, or a chunk
\* does not decode under the encoding being tried
ReadFailed ==
    file.exists /\ (~file.readable \/ ~Decodes(EncodingsToTry[1]))

\* C11: read_sales_data returns (it never raises), and whenever an exception
\* occurs while reading, the list it returns is empty: no line read before
\* the failure is returned.
C11_FailureReturnsNoLines ==
    (ReadReturned /\ ReadFailed) => sales_data_without_header = <<>>

-----------------------------------------------------------------------------
(* The ApiHandler applied to a list of records: the products are fetched,  *)
(* the mapping is made of them, and the records are enriched with it        *)

\* a record whose ProductID has a leading zero
SaleP01 == [SalePen EXCEPT !.ProductID = StrV(<<"P", "0", "1">>)]

\* records the Parser emits: ProductID P1, P2, P01 and the empty one
EnrichRecords == {SalePen, SaleInk, SaleP01, TxnNoProduct}

InitApi ==
    /\ pc = "fetch_all_products"
    /\ max_retries \in 0..DefaultMaxRetries
    /\ attempt = 0
    /\ requests = 0
    /\ response = NoResponse
    /\ all_products = <<>>
    /\ product_mapping = <<>>
    /\ enriched_data = <<>>
    /\ non_enriched_data = <<>>
    /\ total_enriched = 0
    /\ total_non_enriched = 0
    /\ sales_data \in SeqsUpTo(EnrichRecords, MaxRecords)
    /\ analysis = NoAnalysis
    /\ IdleReader
    /\ ParserStart(<<>>)
    /\ IdleFilter

\* a pass of the while loop of fetch_all_products, or its end
FetchStep ==
    \/ RequestSucceeds
    \/ RequestRetried
    \/ RequestFails
    \/ RetriesExhausted

NextApi ==
    \/ FetchStep
    \/ CallCreateProductMapping
    \/ CallEnrichSalesData

SpecApi == InitApi /\ [][NextApi]_vars

\* the statements of fetch_all_products run one after the other, and
\* requests.get is given a timeout: the pass the loop is at is made
SpecApiFair == SpecApi /\ WF_vars(FetchStep)

-----------------------------------------------------------------------------
(* Properties of the ApiHandler (under SpecApi and SpecApiFair) *)

InFetchLoop == pc = "fetch_all_products"

ProductKeys == {"id", "title", "category", "brand", "price", "rating"}

\* what fetch_all_products has done so far is as the retry rule says: no
\* more requests than max_retries; while the loop runs every request made
\* ended in a timeout or a connection error; once it has returned, the list
\* is the products of the last response, the only one that succeeded, or []
\* when that did not succeed
FetchFollowsRetryRule ==
    /\ requests <= max_retries
    /\ InFetchLoop =>
          /\ requests = attempt
          /\ requests > 0 => response.kind \in RetriedKinds
    /\ ~InFetchLoop =>
          IF response.kind = "ok"
          THEN /\ Len(all_products) = Len(response.products)
               /\ \A i \in 1..Len(all_products) :
                     /\ DOMAIN all_products[i] = ProductKeys
                     /\ \A f \in ProductKeys :
                           all_products[i][f]
                               = (IF f \in DOMAIN response.products[i]
                                  THEN response.products[i][f] ELSE NoneV)
          ELSE all_products = <<>>

\* C29: fetch_all_products always terminates, after at most max_retries
\* requests: it returns the products of the first successful request,
\* makes a further request only after a timeout or a connection error, makes
\* none after an HTTP error, another exception or its return, and returns []
\* whenever no request succeeded.
C29_FetchTerminatesWithinRetries ==
    /\ []FetchFollowsRetryRule
    /\ [][~InFetchLoop => requests' = requests]_vars
    /\ <>(~InFetchLoop)

\* C29 witness: two requests failed with a timeout or a connection error, the
\* third and last one allowed succeeded, and its products were returned
C29_Witness ==
    /\ ~InFetchLoop
    /\ max_retries = DefaultMaxRetries
    /\ requests = max_retries
    /\ attempt = 2
    /\ response.kind = "ok"
    /\ all_products # <<>>

EnrichReturned == pc = "enriched"

\* the digits of the ProductID, read as an integer, are a key of the
\* mapping, and the entry of the key is not empty
DigitsAreKey(record) ==
    /\ SelectSeq(record.ProductID.s, IsDigit) # <<>>
    /\ \E k \in 1..Len(product_mapping) :
          /\ product_mapping[k].key
                 = IntV(ParseInt(SelectSeq(record.ProductID.s, IsDigit)).n)
          /\ DOMAIN product_mapping[k].value # {}

\* C30: enrich_sales_data puts every input record in exactly one of the
\* enriched and the non-enriched list, total_enriched + total_non_enriched is
\* the number of input records, and a record is in the enriched list, with
\* API_Match 'True', exactly when the digits of its ProductID, read as an
\* integer, are a key of the product mapping with a non-empty entry.
C30_EnrichedIffDigitsAreKey ==
    EnrichReturned =>
        /\ total_enriched = Len(enriched_data)
        /\ total_non_enriched = Len(non_enriched_data)
        /\ total_enriched + total_non_enriched = Len(sales_data)
        /\ \A i \in 1..Len(sales_data) :
              /\ InList(sales_data[i], enriched_data)
                     # InList(sales_data[i], non_enriched_data)
              /\ (InList(sales_data[i], enriched_data)
                    /\ sales_data[i].API_Match = TrueText)
                   <=> DigitsAreKey(sales_data[i])

-----------------------------------------------------------------------------
(* main: the pipeline run *)

\* str.replace('.', '', 1)
RECURSIVE RemoveFirstPoint(_)
RemoveFirstPoint(str) ==
    IF str = <<>> THEN <<>>
    ELSE IF Head(str) = "." THEN Tail(str)
    ELSE <<Head(str)>> \o RemoveFirstPoint(Tail(str))

\* str.isdigit()
IsDigitStr(str) == str # <<>> /\ AllDigits(str)

\* float(text) if text.replace('.', '', 1).isdigit() else None
AmountInput(text) ==
    IF IsDigitStr(RemoveFirstPoint(text)) THEN FloatV(ParseFloat(text).u) ELSE NoneV

\* region_input.lower() if it is one of the parsed regions, lowered, else None
RegionInput(text, parsed) ==
    IF \E i \in 1..Len(parsed) : Lower(parsed[i].Region.s) = Lower(text)
    THEN StrV(Lower(text))
    ELSE NoneV

\* file_handler.read_sales_data(...), then parse_transactions is entered
MainRead ==
    /\ pc = "main"
    /\ LET r == ReadSalesData(file) IN
        /\ sales_data_without_header' = r.lines
        /\ encoding_used' = r.encoding
        /\ raw_lines' = r.lines
    /\ pc' = "parse"
    /\ UNCHANGED <<file, idx, parsed_transactions, total_records_parsed,
                   invalid_records_removed, valid_records_after_cleaning,
                   dates_list, date_range, filterVars, sales_data, analysis, apiVars>>

\* the filter options are shown: min(amounts) raises ValueError on an empty
\* list, and nothing in main catches it
MainShowOptions ==
    /\ pc = "parsed"
    /\ pc' = IF parsed_transactions = <<>> THEN "crashed" ELSE "options"
    /\ UNCHANGED <<readerVars, parserVars, filterVars, sales_data, analysis, apiVars>>

\* the user declines the filters: region, min_amount, max_amount are None
MainNoFilters ==
    /\ pc = "options"
    /\ transactions' = parsed_transactions
    /\ region' = NoneV
    /\ min_amount' = NoneV
    /\ max_amount' = NoneV
    /\ pc' = "filter"
    /\ UNCHANGED <<readerVars, parserVars, filter_result, sales_data, analysis, apiVars>>

\* the user answers 'y' and types a region and the bounds
MainAskFilters ==
    /\ pc = "options"
    /\ \E region_input \in RegionInputs, min_amount_input \in AmountInputs,
          max_amount_input \in AmountInputs :
          /\ region' = RegionInput(Strip(region_input), parsed_transactions)
          /\ min_amount' = AmountInput(Strip(min_amount_input))
          /\ max_amount' = AmountInput(Strip(max_amount_input))
    /\ transactions' = parsed_transactions
    /\ pc' = "filter"
    /\ UNCHANGED <<readerVars, parserVars, filter_result, sales_data, analysis, apiVars>>

\* every Aggregator is called with parsed_sales_data
MainAnalyze ==
    /\ pc = "filtered"
    /\ sales_data' = parsed_transactions
    /\ pc' = "analyzed"
    /\ UNCHANGED <<readerVars, parserVars, filterVars, analysis, apiVars>>

\* lines of the input file that differ from the standard line
VariedLines ==
    { MessyLine,
      JoinFields(With(7, CustX9)),
      JoinFields(With(3, Empty)),
      JoinFields(With2(1, TxnT3, 6, PriceTiny)),
      JoinFields(SubSeq(GoodFields, 1, 7)) }

\* a readable file of one chunk: the header, some varied lines, and copies
\* of the standard line up to the 50 lines read_sales_data asks for
PipelineFile(varied) ==
    [exists |-> TRUE, readable |-> TRUE,
     chunks |-> << [lines |-> <<HeaderLine>> \o varied
                              \o Copies(MinTransactionLines - Len(varied), GoodLine),
                    bad   |-> {}] >>]

PipelineFiles ==
    {NoFile} \cup { PipelineFile(v) : v \in SeqsUpTo(VariedLines, MaxVaried) }

Init ==
    /\ pc = "main"
    /\ file \in PipelineFiles
    /\ sales_data_without_header = <<>>
    /\ encoding_used = "None"
    /\ IdleParser
    /\ IdleFilter
    /\ sales_data = <<>>
    /\ analysis = NoAnalysis
    /\ IdleApi

Next ==
    \/ MainRead
    \/ ParseStep
    \/ ParseReturn
    \/ MainShowOptions
    \/ MainNoFilters
    \/ MainAskFilters
    \/ CallValidateAndFilter
    \/ MainAnalyze

Spec == Init /\ [][Next]_vars

-----------------------------------------------------------------------------
(* Properties of the pipeline run (under Spec) *)

\* C1: every transaction handed to an Aggregator has passed the Parser's
\* rules and Stage A of the Filter Engine: its TransactionID starts with T,
\* its CustomerID with C, its ProductID with P, Quantity and Price are
\* positive.
C1_AggregatorsGetValidatedTransactions ==
    pc = "analyzed"
      => \A i \in 1..Len(sales_data) : PassesStageA(sales_data[i])

\* C12: when the Line Reader yields zero records the run goes on through
\* parsing, filtering, aggregation and the report with zero records: no
\* step raises an exception that ends the process.
C12_ZeroRecordsRunCompletes ==
    (pc # "main" /\ sales_data_without_header = <<>>) => pc # "crashed"

====
